---------------------------- MODULE Spec2Model ----------------------------
(***************************************************************************)
(* The ephemeral state layer of the manganext backend:                     *)
(*   - the discussion store of the comments router (comments), guarded by  *)
(*     the per-IP sliding-window limiter (requestTracker, rateLimit);      *)
(*   - the keyed expiring cache of the metadata routers (getCache,         *)
(*     setCache).                                                          *)
(* Node runs every handler of the comments router to completion (none of   *)
(* them awaits), so each handler is one action.                            *)
(*                                                                         *)
(* Strings are sequences of one-character strings.  A value of a request   *)
(* body is a record with a type tag, as typeof reports it.  A JavaScript   *)
(* number n is held as the integer 10*n ("tenths"), which keeps one        *)
(* decimal digit.  Comment and reply ids are Date.now().toString(): the    *)
(* decimal rendering is injective, so an id is held as the clock reading   *)
(* it renders.  A timestamp, which the code holds as an ISO 8601 string,   *)
(* is held as the clock reading it renders.                                *)
(* The clock is the system clock: it advances at any time, between two     *)
(* requests and between two statements of a handler.  The handlers of      *)
(* addComment and addReply read it three times (rateLimit, the id, the     *)
(* timestamp), and the three readings need not agree.  The clock is taken  *)
(* never to go back.                                                       *)
(***************************************************************************)
EXTENDS Integers, Sequences, FiniteSets, TLC

VARIABLES
    now,             \* the clock, Date.now(), in milliseconds
    comments,        \* let comments = {}: key -> array of comments, newest first
    commentKeys,     \* own-property order of the object comments (Object.keys)
    requestTracker,  \* const requestTracker = {}: ip -> array of timestamps
    nextSeq,         \* history: number of comments and replies created so far
    admitted,        \* history: ip -> every timestamp rateLimit has recorded
    likeReturns,     \* history: comment seq -> the like counts returned for it
    evicted,         \* history: seqs of the objects the last insertion displaced
    deleted,         \* history: seqs of the comments deleteComment has removed
    rejected,        \* history: ip -> number of calls rateLimit has rejected
    ops,             \* history: number of requests handled
    ticks,           \* history: number of steps in which the clock advanced
    req,             \* history: the request handled last
    res,             \* history: the response given last
    listing,         \* history: the body of the last answer of a read route
    cache,           \* const cache = new Map(): key -> {value, timestamp}
    setLog,          \* history: key -> value and time of every setCache(key, .)
    cacheOps,        \* history: number of cache calls made
    cacheRes,        \* history: the cache call made last and what it returned
    steppers,        \* the comment requests received, each with its position
    active,          \* the request whose handler is on the call stack, or 0
    flights,         \* the requests of the cached routes, each with its position
    genAI,           \* const genAI: whether an AI key is configured
    sitemapCache,    \* let sitemapCache = null: the document (<<>> for null)
    lastGenerated    \* let lastGenerated = 0

vars == <<now, comments, commentKeys, requestTracker, nextSeq, admitted,
          likeReturns, evicted, deleted, rejected, ops, ticks, req, res,
          listing, cache, setLog, cacheOps, cacheRes, steppers, active,
          flights, genAI, sitemapCache, lastGenerated>>

discussionVars == <<comments, commentKeys, requestTracker, nextSeq, admitted,
                    likeReturns, evicted, deleted, rejected, ops, req, res,
                    listing>>

cacheVars == <<cache, setLog, cacheOps, cacheRes>>

loopVars == <<steppers, active>>

fetchVars == <<flights, genAI, sitemapCache, lastGenerated>>

-----------------------------------------------------------------------------
(* Program constants of the comments router.                               *)

MAX_COMMENTS_PER_CHAPTER == 200
MAX_REPLIES_PER_COMMENT == 50
MAX_TEXT_LENGTH == 500
MAX_USERNAME_LENGTH == 30
RATE_LIMIT_WINDOW == 10000
MAX_REQUESTS == 5

(* Bounds of the model.                                                    *)

MaxOps == 2        \* requests handled in one run
MaxTicks == 1      \* steps of one run in which the clock advances
MaxCacheOps == 4    \* cache calls in one run
MaxCacheTicks == 2  \* clock steps in one run of the cache

-----------------------------------------------------------------------------
(* Values of a request body.                                               *)

Str(s) == [type |-> "string", chars |-> s, tenths |-> 0]
Num(t) == [type |-> "number", chars |-> <<>>, tenths |-> t]
Undefined == [type |-> "undefined", chars |-> <<>>, tenths |-> 0]
Null == [type |-> "null", chars |-> <<>>, tenths |-> 0]

Min(a, b) == IF a < b THEN a ELSE b

\* The characters String.prototype.trim removes: the WhiteSpace and the
\* LineTerminator code points of ECMAScript.  A character that has no
\* escape is written as its code point.
Whitespace ==
    {" ", "\t", "\n", "\r", "\f", "U+000B", "U+00A0", "U+FEFF", "U+2028",
     "U+2029", "U+1680", "U+2000", "U+2001", "U+2002", "U+2003", "U+2004",
     "U+2005", "U+2006", "U+2007", "U+2008", "U+2009", "U+200A", "U+202F",
     "U+205F", "U+3000"}

\* s.replace(/[<>]/g, "")
StripAngles(s) == SelectSeq(s, LAMBDA c : c \notin {"<", ">"})

\* s.trim(): from the first to the last character that is no whitespace
Trim(s) ==
    LET inked == {i \in DOMAIN s : s[i] \notin Whitespace}
    IN  IF inked = {} THEN <<>>
        ELSE SubSeq(s, CHOOSE i \in inked : \A j \in inked : i <= j,
                       CHOOSE i \in inked : \A j \in inked : i >= j)

\* s.substring(0, maxLength)
Substring0(s, maxLength) == SubSeq(s, 1, Min(Len(s), maxLength))

\* cleanInput that cuts to maxLength before it trims
cleanInputCutFirst(str, maxLength) ==
    IF str.type # "string" \/ str.chars = <<>> THEN <<>>
    ELSE Trim(Substring0(StripAngles(str.chars), maxLength))

\* cleanInput(str, maxLength): the cleaned string, "" for a falsy or non-string
cleanInput(str, maxLength) ==
    IF str.type # "string" \/ str.chars = <<>> THEN <<>>
    ELSE Substring0(Trim(StripAngles(str.chars)), maxLength)

\* Falsy for a test against null: no string passes it
FalsyNull(str) == FALSE

\* !cleanText, !cleanUsername: a string is falsy when it is empty
Falsy(str) == str = <<>>

\* `${mangaSlug}-${chapterNumber}`
key(mangaSlug, chapterNumber) == mangaSlug \o <<"-">> \o chapterNumber

-----------------------------------------------------------------------------
(* The limiter.                                                            *)

\* FilterWindow with <= for <: a call exactly RATE_LIMIT_WINDOW old is kept
FilterWindowClosed(times, t) ==
    SelectSeq(times, LAMBDA time : t - time <= RATE_LIMIT_WINDOW)

\* requestTracker[ip].filter((time) => now - time < RATE_LIMIT_WINDOW)
FilterWindow(times, t) ==
    SelectSeq(times, LAMBDA time : t - time < RATE_LIMIT_WINDOW)

\* The names of the properties of Object.prototype.  requestTracker is an
\* object literal: for an ip of these names that is no property of its own,
\* requestTracker[ip] is the inherited property, a function (for "__proto__"
\* the prototype object), which is truthy and has no method filter.
ObjectPrototype ==
    {"constructor", "__proto__", "hasOwnProperty", "isPrototypeOf",
     "propertyIsEnumerable", "toLocaleString", "toString", "valueOf",
     "__defineGetter__", "__defineSetter__", "__lookupGetter__",
     "__lookupSetter__"}

\* rateLimit that records the call before it tests the count
rateLimitPushFirst(tracker, ip, t) ==
    LET old == IF ip \in DOMAIN tracker THEN tracker[ip] ELSE <<>>
        kept == FilterWindow(old, t)
        put(times) == [i \in DOMAIN tracker \cup {ip} |->
                          IF i = ip THEN times ELSE tracker[i]]
    IN  IF ip \notin DOMAIN tracker /\ ip \in ObjectPrototype
        THEN [ok |-> FALSE, throws |-> TRUE, tracker |-> tracker]
        ELSE [ok |-> Len(kept) < MAX_REQUESTS, throws |-> FALSE,
              tracker |-> put(Append(kept, t))]

\* rateLimit with one budget for all clients: it rejects when the record of
\* any client holds MAX_REQUESTS calls of the window
rateLimitShared(tracker, ip, t) ==
    LET old == IF ip \in DOMAIN tracker THEN tracker[ip] ELSE <<>>
        kept == FilterWindow(old, t)
        put(times) == [i \in DOMAIN tracker \cup {ip} |->
                          IF i = ip THEN times ELSE tracker[i]]
    IN  IF ip \notin DOMAIN tracker /\ ip \in ObjectPrototype
        THEN [ok |-> FALSE, throws |-> TRUE, tracker |-> tracker]
        ELSE IF \E i \in DOMAIN tracker :
                    Len(FilterWindow(tracker[i], t)) >= MAX_REQUESTS
        THEN [ok |-> FALSE, throws |-> FALSE, tracker |-> put(kept)]
        ELSE [ok |-> TRUE, throws |-> FALSE, tracker |-> put(Append(kept, t))]

\* rateLimit(ip) at clock reading t: the value returned (ok), whether the
\* call throws instead of returning, and the tracker left.  For an ip that
\* names a property of Object.prototype the test !requestTracker[ip] finds
\* the inherited property, the record is not created, and
\* requestTracker[ip].filter(...) throws a TypeError before anything is
\* assigned.
rateLimit(tracker, ip, t) ==
    LET old == IF ip \in DOMAIN tracker THEN tracker[ip] ELSE <<>>
        kept == FilterWindow(old, t)
        put(times) == [i \in DOMAIN tracker \cup {ip} |->
                          IF i = ip THEN times ELSE tracker[i]]
    IN  IF ip \notin DOMAIN tracker /\ ip \in ObjectPrototype
        THEN [ok |-> FALSE, throws |-> TRUE, tracker |-> tracker]
        ELSE IF Len(kept) >= MAX_REQUESTS
        THEN [ok |-> FALSE, throws |-> FALSE, tracker |-> put(kept)]
        ELSE [ok |-> TRUE, throws |-> FALSE, tracker |-> put(Append(kept, t))]

-----------------------------------------------------------------------------
(* The discussion store.  A comment is                                     *)
(*   {id, username, text, rating, timestamp, likes, replies}               *)
(* and a reply {id, username, text, timestamp, likes}.  The field seq is   *)
(* not a field of the program's object: it numbers the objects in the      *)
(* order of their creation and stands for the object's identity.           *)

\* InsertComment that hands the replies of the comment it displaces to the
\* new comment
InsertCommentAdopt(list, newComment) ==
    IF Len(list) >= MAX_COMMENTS_PER_CHAPTER
    THEN <<[newComment EXCEPT !.replies = list[Len(list)].replies]>>
             \o SubSeq(list, 1, Len(list) - 1)
    ELSE <<newComment>> \o list

\* InsertComment without the pop
InsertCommentNoPop(list, newComment) == <<newComment>> \o list

\* InsertComment with shift() for pop(): the newest comment is dropped
InsertCommentShift(list, newComment) ==
    LET kept == IF Len(list) >= MAX_COMMENTS_PER_CHAPTER
                THEN Tail(list)
                ELSE list
    IN  <<newComment>> \o kept

\* comments[key].pop() at capacity, then comments[key].unshift(newComment)
InsertComment(list, newComment) ==
    LET kept == IF Len(list) >= MAX_COMMENTS_PER_CHAPTER
                THEN SubSeq(list, 1, Len(list) - 1)
                ELSE list
    IN  <<newComment>> \o kept

\* InsertReply with unshift() for push(): the newest reply comes first
InsertReplyUnshift(replies, reply) ==
    LET kept == IF Len(replies) >= MAX_REPLIES_PER_COMMENT
                THEN Tail(replies)
                ELSE replies
    IN  <<reply>> \o kept

\* comment.replies.shift() at capacity, then comment.replies.push(reply)
InsertReply(replies, reply) ==
    LET kept == IF Len(replies) >= MAX_REPLIES_PER_COMMENT
                THEN Tail(replies)
                ELSE replies
    IN  Append(kept, reply)

\* FindIndex that answers the first element when none matches
FindIndexOrFirst(list, commentId) ==
    IF \E i \in DOMAIN list : list[i].id = commentId
    THEN CHOOSE i \in DOMAIN list :
             /\ list[i].id = commentId
             /\ \A j \in 1..(i - 1) : list[j].id # commentId
    ELSE IF list = <<>> THEN 0 ELSE 1

\* comments[key].findIndex(c => c.id === commentId), 1-based; 0 for -1.
\* comments[key].find(...) is the element at that index.
FindIndex(list, commentId) ==
    IF \E i \in DOMAIN list : list[i].id = commentId
    THEN CHOOSE i \in DOMAIN list :
             /\ list[i].id = commentId
             /\ \A j \in 1..(i - 1) : list[j].id # commentId
    ELSE 0

\* Splice without the count: splice(index) removes the rest of the array
SpliceRest(list, index) == SubSeq(list, 1, index - 1)

\* comments[key].splice(index, 1)
Splice(list, index) ==
    SubSeq(list, 1, index - 1) \o SubSeq(list, index + 1, Len(list))

\* LikeOne that sets the count to 1
LikeOneReset(comment) == [comment EXCEPT !.likes = 1]

\* LikeOne that loses the update
LikeOneLost(comment) == comment

\* comment.likes += 1
LikeOne(comment) == [comment EXCEPT !.likes = @ + 1]

\* typeof rating === "number" && rating >= 1 && rating <= 5 ? rating : null
StoredRating(rating) ==
    IF rating.type = "number" /\ rating.tenths >= 10 /\ rating.tenths <= 50
    THEN rating
    ELSE Null

HasKey(k) == k \in DOMAIN comments

\* comments[key] || []
Thread(k) == IF HasKey(k) THEN comments[k] ELSE <<>>

\* the object comments with comments[k] = list
PutThread(k, list) ==
    [x \in DOMAIN comments \cup {k} |-> IF x = k THEN list ELSE comments[x]]

PutKeys(k) == IF HasKey(k) THEN commentKeys ELSE Append(commentKeys, k)

NoBody == [username |-> Undefined, text |-> Undefined, rating |-> Undefined]

\* a request and the clock reading at which its handler is called
Request(op, ip, mangaSlug, chapterNumber, commentId, body) ==
    [op |-> op, ip |-> ip, mangaSlug |-> mangaSlug,
     chapterNumber |-> chapterNumber, commentId |-> commentId, body |-> body,
     at |-> now]

\* res.status(status).json(...): error is the error text ("" on success),
\* likes the like count answered (-1 when none), seq the object answered
\* (0 when none)
Response(status, error, likes, seq) ==
    [status |-> status, error |-> error, likes |-> likes, seq |-> seq]

\* the history of recorded timestamps after a call of rateLimit(ip)
Admit(ip, ok) ==
    IF ok
    THEN [i \in DOMAIN admitted \cup {ip} |->
             IF i = ip
             THEN Append(IF ip \in DOMAIN admitted THEN admitted[ip] ELSE <<>>, now)
             ELSE admitted[i]]
    ELSE admitted

\* the count of rejected calls after a call of rateLimit(ip) that returned
\* ok (a call that throws returns nothing)
Reject(ip, ok, throws) ==
    IF ok \/ throws THEN rejected
    ELSE [i \in DOMAIN rejected \cup {ip} |->
             IF i = ip
             THEN (IF ip \in DOMAIN rejected THEN rejected[ip] ELSE 0) + 1
             ELSE rejected[i]]

SeqsOf(list) == {list[i].seq : i \in DOMAIN list}

-----------------------------------------------------------------------------
(* The trending view.  An entry of the answer is                           *)
(*   {mangaSlug, chapterNumber, commentCount, recentActivity};             *)
(* the field key is not a field of the program's object: it is the key of  *)
(* the store the entry was made from.  A recentActivity of 0 stands for    *)
(* null (no comment bears the clock reading 0).                            *)

TrendingLimit == 10

\* const [mangaSlug, chapterNumber] = key.split("-"): the text before the
\* first "-", and the text between the first "-" and the second (or the
\* end); <<>> stands for the undefined of a key without "-"
SplitDash(k) ==
    LET dashes == {i \in DOMAIN k : k[i] = "-"}
        first == CHOOSE i \in dashes : \A j \in dashes : i <= j
        later == {i \in dashes : i > first}
        second == IF later = {} THEN Len(k) + 1
                  ELSE CHOOSE i \in later : \A j \in later : i <= j
    IN  IF dashes = {} THEN <<k, <<>>>>
        ELSE <<SubSeq(k, 1, first - 1), SubSeq(k, first + 1, second - 1)>>

\* the object the map callback returns for a key
TrendingEntry(store, k) ==
    [key |-> k,
     mangaSlug |-> SplitDash(k)[1],
     chapterNumber |-> SplitDash(k)[2],
     commentCount |-> Len(store[k]),
     recentActivity |-> IF store[k] = <<>> THEN 0 ELSE store[k][1].timestamp]

\* SortByCount in ascending order
SortByCountAscending(entries) ==
    LET Before(i, j) ==
            \/ entries[i].commentCount < entries[j].commentCount
            \/ entries[i].commentCount = entries[j].commentCount /\ i < j
        Rank(i) == Cardinality({j \in DOMAIN entries : Before(j, i)}) + 1
    IN  [p \in DOMAIN entries |->
            entries[CHOOSE i \in DOMAIN entries : Rank(i) = p]]

\* .sort((a, b) => b.commentCount - a.commentCount): Array.prototype.sort is
\* stable, so entries of equal count keep their order
SortByCount(entries) ==
    LET Before(i, j) ==
            \/ entries[i].commentCount > entries[j].commentCount
            \/ entries[i].commentCount = entries[j].commentCount /\ i < j
        Rank(i) == Cardinality({j \in DOMAIN entries : Before(j, i)}) + 1
    IN  [p \in DOMAIN entries |->
            entries[CHOOSE i \in DOMAIN entries : Rank(i) = p]]

\* Object.keys(comments).map(...).sort(...).slice(0, 10)
trending(store, keys) ==
    LET entries == [i \in DOMAIN keys |-> TrendingEntry(store, keys[i])]
        sorted == SortByCount(entries)
    IN  SubSeq(sorted, 1, Min(Len(sorted), TrendingLimit))

-----------------------------------------------------------------------------
(* Handlers.  A handler that stores an object reads the clock in rateLimit *)
(* (const now = Date.now()), again for the id (Date.now().toString()) and  *)
(* again for the timestamp (new Date().toISOString()).  The first reading  *)
(* is the clock as the handler is called; the clock advances by a step of  *)
(* ClockSteps before each of the other two, and is left at the last        *)
(* reading.  A handler that throws answers nothing: Express answers 500.   *)

\* the milliseconds that pass between two clock readings of one handler
ClockSteps == {0, 1}

\* the clock advances by d milliseconds while a handler runs; like Tick, a
\* step in which the clock advances is one of at most MaxTicks of a run
ClockAdvances(d) ==
    /\ d > 0 => ticks < MaxTicks
    /\ ticks' = IF d > 0 THEN ticks + 1 ELSE ticks
    /\ now' = now + d

\* AddComment that validates the body before it asks the limiter
AddCommentValidateFirst(ip, mangaSlug, chapterNumber, body) ==
    LET rl == rateLimit(requestTracker, ip, now)
        cleanUsername == cleanInput(body.username, MAX_USERNAME_LENGTH)
        cleanText == cleanInput(body.text, MAX_TEXT_LENGTH)
        k == key(mangaSlug, chapterNumber)
        newComment(idAt, stampAt) ==
            [id |-> idAt, seq |-> nextSeq + 1,
             username |-> cleanUsername, text |-> cleanText,
             rating |-> StoredRating(body.rating),
             timestamp |-> stampAt, likes |-> 0, replies |-> <<>>]
    IN  /\ ops < MaxOps
        /\ ops' = ops + 1
        /\ req' = Request("addComment", ip, mangaSlug, chapterNumber, 0, body)
        /\ UNCHANGED <<likeReturns, deleted, listing, cacheVars,
                       loopVars, fetchVars>>
        /\ IF Falsy(cleanText) \/ Falsy(cleanUsername)
           THEN /\ res' = Response(400, "Comment text is required", -1, 0)
                /\ evicted' = {}
                /\ UNCHANGED <<now, ticks, comments, commentKeys, nextSeq,
                               requestTracker, admitted, rejected>>
           ELSE /\ requestTracker' = rl.tracker
                /\ admitted' = Admit(ip, rl.ok)
                /\ rejected' = Reject(ip, rl.ok, rl.throws)
                /\ IF rl.throws
                   THEN /\ res' = Response(500, "Internal Server Error", -1, 0)
                        /\ evicted' = {}
                        /\ UNCHANGED <<now, ticks, comments, commentKeys, nextSeq>>
                   ELSE IF ~rl.ok
                   THEN /\ res' = Response(429, "Too many requests", -1, 0)
                        /\ evicted' = {}
                        /\ UNCHANGED <<now, ticks, comments, commentKeys, nextSeq>>
                   ELSE \E d1, d2 \in ClockSteps :
                        /\ ClockAdvances(d1 + d2)
                        /\ comments' =
                               PutThread(k, InsertComment(Thread(k),
                                   newComment(now + d1, now + d1 + d2)))
                        /\ commentKeys' = PutKeys(k)
                        /\ nextSeq' = nextSeq + 1
                        /\ evicted' = SeqsOf(Thread(k)) \ SeqsOf(comments'[k])
                        /\ res' = Response(200, "", -1, nextSeq + 1)

\* router.post("/:mangaSlug/:chapterNumber")
AddComment(ip, mangaSlug, chapterNumber, body) ==
    LET rl == rateLimit(requestTracker, ip, now)
        cleanUsername == cleanInput(body.username, MAX_USERNAME_LENGTH)
        cleanText == cleanInput(body.text, MAX_TEXT_LENGTH)
        k == key(mangaSlug, chapterNumber)
        newComment(idAt, stampAt) ==
            [id |-> idAt, seq |-> nextSeq + 1,
             username |-> cleanUsername, text |-> cleanText,
             rating |-> StoredRating(body.rating),
             timestamp |-> stampAt, likes |-> 0, replies |-> <<>>]
    IN  /\ ops < MaxOps
        /\ ops' = ops + 1
        /\ req' = Request("addComment", ip, mangaSlug, chapterNumber, 0, body)
        /\ requestTracker' = rl.tracker
        /\ admitted' = Admit(ip, rl.ok)
        /\ rejected' = Reject(ip, rl.ok, rl.throws)
        /\ UNCHANGED <<likeReturns, deleted, listing, cacheVars,
                       loopVars, fetchVars>>
        /\ IF rl.throws
           THEN /\ res' = Response(500, "Internal Server Error", -1, 0)
                /\ evicted' = {}
                /\ UNCHANGED <<now, ticks, comments, commentKeys, nextSeq>>
           ELSE IF ~rl.ok
           THEN /\ res' = Response(429, "Too many requests", -1, 0)
                /\ evicted' = {}
                /\ UNCHANGED <<now, ticks, comments, commentKeys, nextSeq>>
           ELSE IF Falsy(cleanText)
           THEN /\ res' = Response(400, "Comment text is required", -1, 0)
                /\ evicted' = {}
                /\ UNCHANGED <<now, ticks, comments, commentKeys, nextSeq>>
           ELSE IF Falsy(cleanUsername)
           THEN /\ res' = Response(400, "Username is required", -1, 0)
                /\ evicted' = {}
                /\ UNCHANGED <<now, ticks, comments, commentKeys, nextSeq>>
           ELSE \E d1, d2 \in ClockSteps :
                /\ ClockAdvances(d1 + d2)
                /\ comments' =
                       PutThread(k, InsertComment(Thread(k),
                           newComment(now + d1, now + d1 + d2)))
                /\ commentKeys' = PutKeys(k)
                /\ nextSeq' = nextSeq + 1
                /\ evicted' = SeqsOf(Thread(k)) \ SeqsOf(comments'[k])
                /\ res' = Response(200, "", -1, nextSeq + 1)

\* router.post("/:mangaSlug/:chapterNumber/:commentId/like")
LikeComment(mangaSlug, chapterNumber, commentId) ==
    LET k == key(mangaSlug, chapterNumber)
        index == FindIndex(Thread(k), commentId)
        comment == LikeOne(comments[k][index])
    IN  /\ ops < MaxOps
        /\ ops' = ops + 1
        /\ req' = Request("likeComment", "", mangaSlug, chapterNumber,
                          commentId, NoBody)
        /\ evicted' = {}
        /\ UNCHANGED <<now, ticks, requestTracker, admitted, rejected, nextSeq,
                       commentKeys, deleted, listing, cacheVars,
                       loopVars, fetchVars>>
        /\ IF ~HasKey(k)
           THEN /\ res' = Response(404, "No comments found", -1, 0)
                /\ UNCHANGED <<comments, likeReturns>>
           ELSE IF index = 0
           THEN /\ res' = Response(404, "Comment not found", -1, 0)
                /\ UNCHANGED <<comments, likeReturns>>
           ELSE /\ comments' = [comments EXCEPT ![k][index] = comment]
                /\ res' = Response(200, "", comment.likes, comment.seq)
                /\ likeReturns' =
                       [s \in DOMAIN likeReturns \cup {comment.seq} |->
                           IF s = comment.seq
                           THEN Append(IF s \in DOMAIN likeReturns
                                       THEN likeReturns[s] ELSE <<>>,
                                       comment.likes)
                           ELSE likeReturns[s]]

\* router.post("/:mangaSlug/:chapterNumber/:commentId/reply")
AddReply(ip, mangaSlug, chapterNumber, commentId, body) ==
    LET rl == rateLimit(requestTracker, ip, now)
        cleanUsername == cleanInput(body.username, MAX_USERNAME_LENGTH)
        cleanText == cleanInput(body.text, MAX_TEXT_LENGTH)
        k == key(mangaSlug, chapterNumber)
        index == FindIndex(Thread(k), commentId)
        reply(idAt, stampAt) ==
            [id |-> idAt, seq |-> nextSeq + 1, username |-> cleanUsername,
             text |-> cleanText, timestamp |-> stampAt, likes |-> 0]
    IN  /\ ops < MaxOps
        /\ ops' = ops + 1
        /\ req' = Request("addReply", ip, mangaSlug, chapterNumber,
                          commentId, body)
        /\ requestTracker' = rl.tracker
        /\ admitted' = Admit(ip, rl.ok)
        /\ rejected' = Reject(ip, rl.ok, rl.throws)
        /\ UNCHANGED <<likeReturns, commentKeys, deleted, listing,
                       cacheVars, loopVars, fetchVars>>
        /\ IF rl.throws
           THEN /\ res' = Response(500, "Internal Server Error", -1, 0)
                /\ evicted' = {}
                /\ UNCHANGED <<now, ticks, comments, nextSeq>>
           ELSE IF ~rl.ok
           THEN /\ res' = Response(429, "Too many requests", -1, 0)
                /\ evicted' = {}
                /\ UNCHANGED <<now, ticks, comments, nextSeq>>
           ELSE IF Falsy(cleanText) \/ Falsy(cleanUsername)
           THEN /\ res' = Response(400, "Invalid reply data", -1, 0)
                /\ evicted' = {}
                /\ UNCHANGED <<now, ticks, comments, nextSeq>>
           ELSE IF ~HasKey(k)
           THEN /\ res' = Response(404, "No comments found", -1, 0)
                /\ evicted' = {}
                /\ UNCHANGED <<now, ticks, comments, nextSeq>>
           ELSE IF index = 0
           THEN /\ res' = Response(404, "Comment not found", -1, 0)
                /\ evicted' = {}
                /\ UNCHANGED <<now, ticks, comments, nextSeq>>
           ELSE \E d1, d2 \in ClockSteps :
                /\ ClockAdvances(d1 + d2)
                /\ comments' = [comments EXCEPT ![k][index].replies =
                                    InsertReply(@, reply(now + d1,
                                                         now + d1 + d2))]
                /\ nextSeq' = nextSeq + 1
                /\ evicted' = SeqsOf(comments[k][index].replies) \
                                  SeqsOf(comments'[k][index].replies)
                /\ res' = Response(200, "", -1, nextSeq + 1)

\* DeleteComment that removes the key of a thread it leaves empty
DeleteCommentDropKey(mangaSlug, chapterNumber, commentId) ==
    LET k == key(mangaSlug, chapterNumber)
        index == FindIndex(Thread(k), commentId)
        left == Splice(Thread(k), index)
    IN  /\ ops < MaxOps
        /\ ops' = ops + 1
        /\ req' = Request("deleteComment", "", mangaSlug, chapterNumber,
                          commentId, NoBody)
        /\ evicted' = {}
        /\ UNCHANGED <<now, ticks, requestTracker, admitted, rejected, nextSeq,
                       likeReturns, listing, cacheVars, loopVars, fetchVars>>
        /\ IF ~HasKey(k)
           THEN /\ res' = Response(404, "No comments found", -1, 0)
                /\ UNCHANGED <<comments, commentKeys, deleted>>
           ELSE IF index = 0
           THEN /\ res' = Response(404, "Comment not found", -1, 0)
                /\ UNCHANGED <<comments, commentKeys, deleted>>
           ELSE /\ comments' = IF left = <<>>
                               THEN [x \in DOMAIN comments \ {k} |-> comments[x]]
                               ELSE [comments EXCEPT ![k] = left]
                /\ commentKeys' = IF left = <<>>
                                  THEN SelectSeq(commentKeys, LAMBDA x : x # k)
                                  ELSE commentKeys
                /\ deleted' = deleted \cup {comments[k][index].seq}
                /\ res' = Response(200, "", -1, comments[k][index].seq)

\* router.delete("/:mangaSlug/:chapterNumber/:commentId")
DeleteComment(mangaSlug, chapterNumber, commentId) ==
    LET k == key(mangaSlug, chapterNumber)
        index == FindIndex(Thread(k), commentId)
    IN  /\ ops < MaxOps
        /\ ops' = ops + 1
        /\ req' = Request("deleteComment", "", mangaSlug, chapterNumber,
                          commentId, NoBody)
        /\ evicted' = {}
        /\ UNCHANGED <<now, ticks, requestTracker, admitted, rejected, nextSeq,
                       likeReturns, commentKeys, listing, cacheVars,
                       loopVars, fetchVars>>
        /\ IF ~HasKey(k)
           THEN /\ res' = Response(404, "No comments found", -1, 0)
                /\ UNCHANGED <<comments, deleted>>
           ELSE IF index = 0
           THEN /\ res' = Response(404, "Comment not found", -1, 0)
                /\ UNCHANGED <<comments, deleted>>
           ELSE /\ comments' = [comments EXCEPT ![k] = Splice(@, index)]
                /\ deleted' = deleted \cup
                                  (SeqsOf(comments[k]) \ SeqsOf(comments'[k]))
                /\ res' = Response(200, "", -1, comments[k][index].seq)

\* ListComments that creates the thread it does not find
ListCommentsCreating(mangaSlug, chapterNumber) ==
    LET k == key(mangaSlug, chapterNumber)
    IN  /\ ops < MaxOps
        /\ ops' = ops + 1
        /\ req' = Request("listComments", "", mangaSlug, chapterNumber, 0,
                          NoBody)
        /\ res' = Response(200, "", -1, 0)
        /\ listing' = [comments |-> Thread(k), total |-> Len(Thread(k)),
                       trending |-> <<>>]
        /\ evicted' = {}
        /\ comments' = PutThread(k, Thread(k))
        /\ commentKeys' = PutKeys(k)
        /\ UNCHANGED <<now, ticks, requestTracker, admitted,
                       rejected, nextSeq, likeReturns, deleted, cacheVars,
                       loopVars, fetchVars>>

\* router.get("/:mangaSlug/:chapterNumber")
ListComments(mangaSlug, chapterNumber) ==
    LET k == key(mangaSlug, chapterNumber)
    IN  /\ ops < MaxOps
        /\ ops' = ops + 1
        /\ req' = Request("listComments", "", mangaSlug, chapterNumber, 0,
                          NoBody)
        /\ res' = Response(200, "", -1, 0)
        /\ listing' = [comments |-> Thread(k), total |-> Len(Thread(k)),
                       trending |-> <<>>]
        /\ evicted' = {}
        /\ UNCHANGED <<now, ticks, comments, commentKeys, requestTracker, admitted,
                       rejected, nextSeq, likeReturns, deleted, cacheVars,
                       loopVars, fetchVars>>

\* router.get("/trending")
Trending ==
    /\ ops < MaxOps
    /\ ops' = ops + 1
    /\ req' = Request("trending", "", <<>>, <<>>, 0, NoBody)
    /\ res' = Response(200, "", -1, 0)
    /\ listing' = [comments |-> <<>>, total |-> 0,
                   trending |-> trending(comments, commentKeys)]
    /\ evicted' = {}
    /\ UNCHANGED <<now, ticks, comments, commentKeys, requestTracker, admitted,
                   rejected, nextSeq, likeReturns, deleted, cacheVars,
                   loopVars, fetchVars>>

-----------------------------------------------------------------------------
(* Inputs.                                                                 *)

\* req.ip.  With app.set("trust proxy", 1) it is the last entry of the
\* header X-Forwarded-For when there is one, an address or whatever text the
\* sender of the header wrote: two addresses, and a name of ObjectPrototype.
IPs == {"10.0.0.1", "10.0.0.2", "constructor"}

\* Route parameters :mangaSlug and :chapterNumber.  Express matches any
\* characters but "/", "-" included.
Routes == {<<<<"a">>, <<"1">>>>,
           <<<<"a", "-", "b">>, <<"1">>>>}

Bob == <<"b", "o", "b">>
Hi == <<"h", "i">>

\* Request bodies {username, text, rating}: one that is stored (after
\* cleaning), one whose text and one whose username is empty after cleaning
Bodies ==
    {[username |-> Str(<<"<", "b", "o", "b", ">">>),
      text |-> Str(<<" ", "<", "b", ">", "h", "i", " ">>), rating |-> Num(50)],
     [username |-> Str(Bob), text |-> Str(<<"<", " ", ">">>), rating |-> Undefined],
     [username |-> Str(<<" ">>), text |-> Str(Hi), rating |-> Undefined]}

\* A snapshot of a server that has been running.  Under the key "a-1",
\* BusyPosted comments were posted, one per millisecond from millisecond 1
\* on, and the first of them was deleted before the last was posted, which
\* leaves a thread of MAX_COMMENTS_PER_CHAPTER comments; then
\* MAX_REPLIES_PER_COMMENT replies were posted to the oldest comment left,
\* one per millisecond, the last MAX_REQUESTS of them by BusyIp and the rest
\* by clients outside IPs (whose timestamps no request of IPs reads); that
\* comment was liked BusyLikes times.
BusyLen == MAX_COMMENTS_PER_CHAPTER
BusyPosted == BusyLen + 1
BusyReplies == MAX_REPLIES_PER_COMMENT
BusyLikes == 3
StartNow == BusyPosted + BusyReplies + 1
BusyIp == "10.0.0.1"
BusyKey == key(<<"a">>, <<"1">>)
BusyDeleted == {1}
BusyOldest == {2}

\* the j-th reply of the snapshot, posted at millisecond BusyPosted + j
BusyReply(j) ==
    [id |-> BusyPosted + j, seq |-> BusyPosted + j, username |-> Bob,
     text |-> Hi, timestamp |-> BusyPosted + j, likes |-> 0]

\* the i-th comment of the snapshot, posted at millisecond i
BusyComment(i) ==
    [id |-> i, seq |-> i, username |-> Bob, text |-> Hi, rating |-> Null,
     timestamp |-> i, likes |-> IF i \in BusyOldest THEN BusyLikes ELSE 0,
     replies |-> IF i \in BusyOldest
                 THEN [j \in 1..BusyReplies |-> BusyReply(j)] ELSE <<>>]

\* unshift puts the newest comment first, push the newest reply last
BusyThread == [p \in 1..BusyLen |-> BusyComment(BusyPosted + 1 - p)]

BusyCalls == [j \in 1..MAX_REQUESTS |-> StartNow - 1 - MAX_REQUESTS + j]

\* The :commentId values tried on a thread: an id no comment bears, the id of
\* the snapshot's oldest comment, and the id of every comment posted since.
\* Any other absent id behaves as MissingId.
MissingId == 0
ProbeIds == BusyOldest
CommentIds(k) ==
    LET list == Thread(k)
    IN  {MissingId} \cup
        {id \in {list[i].id : i \in DOMAIN list} :
            id \in ProbeIds \/ id >= StartNow}

\* Clock steps: one millisecond, the step that brings the oldest call
\* recorded in the snapshot to an age of exactly RATE_LIMIT_WINDOW, and the
\* step after which every call recorded in the snapshot is older than that.
TickSteps == {1, RATE_LIMIT_WINDOW - MAX_REQUESTS, RATE_LIMIT_WINDOW}

-----------------------------------------------------------------------------
(* The specification of the comments router.                               *)

NoRequest ==
    [op |-> "none", ip |-> "", mangaSlug |-> <<>>, chapterNumber |-> <<>>,
     commentId |-> 0, body |-> NoBody, at |-> 0]
NoResponse == Response(0, "", -1, 0)
NoListing == [comments |-> <<>>, total |-> 0, trending |-> <<>>]

NoCacheCall == [op |-> "none", key |-> "", value |-> "", hit |-> FALSE, at |-> 0]

EmptyCache ==
    /\ cache = <<>>
    /\ setLog = <<>>
    /\ cacheOps = 0
    /\ cacheRes = NoCacheCall

\* no request is being handled, no AI key is configured and no sitemap has
\* been generated
Idle ==
    /\ steppers = <<>>
    /\ active = 0
    /\ flights = <<>>
    /\ genAI = FALSE
    /\ sitemapCache = <<>>
    /\ lastGenerated = 0

InitFresh ==
    /\ rejected = <<>>
    /\ comments = <<>>
    /\ commentKeys = <<>>
    /\ requestTracker = <<>>
    /\ admitted = <<>>
    /\ likeReturns = <<>>
    /\ deleted = {}
    /\ nextSeq = 0

InitBusy ==
    /\ rejected = <<>>
    /\ comments = [k \in {BusyKey} |-> BusyThread]
    /\ commentKeys = <<BusyKey>>
    /\ requestTracker = [i \in {BusyIp} |-> BusyCalls]
    /\ admitted = [i \in {BusyIp} |-> BusyCalls]
    /\ likeReturns = [s \in BusyOldest |-> [n \in 1..BusyLikes |-> n]]
    /\ deleted = BusyDeleted
    /\ nextSeq = BusyPosted + BusyReplies

Init ==
    /\ now = StartNow
    /\ InitFresh \/ InitBusy
    /\ evicted = {}
    /\ ops = 0
    /\ ticks = 0
    /\ req = NoRequest
    /\ res = NoResponse
    /\ listing = NoListing
    /\ EmptyCache
    /\ Idle

\* the clock advances: between two requests and, where the handlers are
\* taken statement by statement, between two statements of a handler
Tick(d) ==
    /\ ticks < MaxTicks
    /\ ticks' = ticks + 1
    /\ now' = now + d
    /\ UNCHANGED <<discussionVars, cacheVars, loopVars, fetchVars>>

\* the clients of the requests to the store: the client whose calls the
\* snapshot records, and the client whose name is a name of ObjectPrototype
StoreIPs == {BusyIp, "constructor"}

Next ==
    \/ \E d \in TickSteps : Tick(d)
    \/ \E ip \in StoreIPs, r \in Routes, body \in Bodies :
           AddComment(ip, r[1], r[2], body)
    \/ \E r \in Routes : \E commentId \in CommentIds(key(r[1], r[2])) :
           LikeComment(r[1], r[2], commentId)
    \/ \E r \in Routes : \E commentId \in CommentIds(key(r[1], r[2])) :
           \E ip \in StoreIPs, body \in Bodies :
               AddReply(ip, r[1], r[2], commentId, body)
    \/ \E r \in Routes : \E commentId \in CommentIds(key(r[1], r[2])) :
           DeleteComment(r[1], r[2], commentId)

Spec == Init /\ [][Next]_vars

-----------------------------------------------------------------------------
(* The keyed expiring cache of the metadata routers.  Every router holds   *)
(* its own Map and the same two functions; a cached value is the JSON the  *)
(* collaborator answered, held as a string.                                *)

CACHE_DURATION == 1200000

\* getCache that restarts the age of the entry it returns
getCacheTouch(c, k, t) ==
    IF k \notin DOMAIN c
    THEN [hit |-> FALSE, value |-> "", cache |-> c]
    ELSE IF t - c[k].timestamp > CACHE_DURATION
    THEN [hit |-> FALSE, value |-> "",
          cache |-> [x \in DOMAIN c \ {k} |-> c[x]]]
    ELSE [hit |-> TRUE, value |-> c[k].value,
          cache |-> [c EXCEPT ![k].timestamp = t]]

\* getCache(key) at clock reading t: hit is FALSE for the null returned on a
\* miss, value is what is returned, cache is the Map left
getCache(c, k, t) ==
    IF k \notin DOMAIN c
    THEN [hit |-> FALSE, value |-> "", cache |-> c]
    ELSE IF t - c[k].timestamp > CACHE_DURATION
    THEN [hit |-> FALSE, value |-> "",
          cache |-> [x \in DOMAIN c \ {k} |-> c[x]]]
    ELSE [hit |-> TRUE, value |-> c[k].value, cache |-> c]

\* setCache that keeps the entry a key already has
setCacheKeepFirst(c, k, value, t) ==
    [x \in DOMAIN c \cup {k} |->
        IF x \in DOMAIN c THEN c[x] ELSE [value |-> value, timestamp |-> t]]

\* setCache(key, value) at clock reading t: the Map left
setCache(c, k, value, t) ==
    [x \in DOMAIN c \cup {k} |->
        IF x = k THEN [value |-> value, timestamp |-> t] ELSE c[x]]

CacheKeys == {"search-a", "search-b"}
CacheValues == {"v1", "v2"}

\* Clock steps of the cache: one millisecond, and one millisecond less than
\* CACHE_DURATION
CacheTickSteps == {1, CACHE_DURATION - 1}

\* a handler calls getCache(k)
GetCache(k) ==
    LET got == getCache(cache, k, now)
    IN  /\ cacheOps < MaxCacheOps
        /\ cacheOps' = cacheOps + 1
        /\ cache' = got.cache
        /\ cacheRes' = [op |-> "get", key |-> k, value |-> got.value,
                        hit |-> got.hit, at |-> now]
        /\ UNCHANGED <<now, ticks, setLog, discussionVars, loopVars,
                   fetchVars>>

\* a handler calls setCache(k, value)
SetCache(k, value) ==
    /\ cacheOps < MaxCacheOps
    /\ cacheOps' = cacheOps + 1
    /\ cache' = setCache(cache, k, value, now)
    /\ setLog' = [x \in DOMAIN setLog \cup {k} |->
                     IF x = k
                     THEN Append(IF k \in DOMAIN setLog THEN setLog[k] ELSE <<>>,
                                 [value |-> value, at |-> now])
                     ELSE setLog[x]]
    /\ cacheRes' = [op |-> "set", key |-> k, value |-> value, hit |-> FALSE,
                    at |-> now]
    /\ UNCHANGED <<now, ticks, discussionVars, loopVars,
                   fetchVars>>

\* the clock advances between two cache calls
CacheTick(d) ==
    /\ ticks < MaxCacheTicks
    /\ ticks' = ticks + 1
    /\ now' = now + d
    /\ UNCHANGED <<discussionVars, cacheVars, loopVars, fetchVars>>

InitCache ==
    /\ now = StartNow
    /\ InitFresh
    /\ evicted = {}
    /\ ops = 0
    /\ ticks = 0
    /\ req = NoRequest
    /\ res = NoResponse
    /\ listing = NoListing
    /\ EmptyCache
    /\ Idle

NextCache ==
    \/ \E d \in CacheTickSteps : CacheTick(d)
    \/ \E k \in CacheKeys : GetCache(k)
    \/ \E k \in CacheKeys, value \in CacheValues : SetCache(k, value)

SpecCache == InitCache /\ [][NextCache]_vars

-----------------------------------------------------------------------------
(* Properties of the comments router.  They read the request handled last  *)
(* (req), its response (res) and the store it left.                        *)

\* the key the last request addressed, its thread and the comment it names
ReqKey == key(req.mangaSlug, req.chapterNumber)
ReqThread == Thread(ReqKey)
ReqIndex == FindIndex(ReqThread, req.commentId)

\* the limiter admitted the last request: it was answered, and not with 429
\* (500 is the answer to a handler that throws)
ReqAdmitted == res.status \notin {429, 500}

\* the last request's body passes the validation of its handler
ReqValid ==
    /\ cleanInput(req.body.text, MAX_TEXT_LENGTH) # <<>>
    /\ cleanInput(req.body.username, MAX_USERNAME_LENGTH) # <<>>

\* C1: every thread holds at most MAX_COMMENTS_PER_CHAPTER comments and every
\* comment at most MAX_REPLIES_PER_COMMENT replies; an admitted, valid
\* addComment (an admitted, valid addReply to a comment that exists) is
\* answered 200 with the new element at the insert end, and it displaces at
\* most one element, and none when the list is below capacity afterwards.
C1_WithinCapacity ==
    /\ \A k \in DOMAIN comments :
           /\ Len(comments[k]) <= MAX_COMMENTS_PER_CHAPTER
           /\ \A i \in DOMAIN comments[k] :
                  Len(comments[k][i].replies) <= MAX_REPLIES_PER_COMMENT
    /\ (req.op = "addComment" /\ ReqValid /\ ReqAdmitted) =>
           /\ res.status = 200
           /\ ReqThread # <<>>
           /\ ReqThread[1].seq = res.seq
           /\ Cardinality(evicted) <= 1
           /\ Len(ReqThread) < MAX_COMMENTS_PER_CHAPTER => evicted = {}
    /\ (req.op = "addReply" /\ ReqValid /\ ReqAdmitted /\ ReqIndex # 0) =>
           LET replies == ReqThread[ReqIndex].replies
           IN  /\ res.status = 200
               /\ replies # <<>>
               /\ replies[Len(replies)].seq = res.seq
               /\ Cardinality(evicted) <= 1
               /\ Len(replies) < MAX_REPLIES_PER_COMMENT => evicted = {}

\* C1 witness: the first request of a run was an addComment to the full
\* thread of the snapshot; it was answered 200 and displaced a comment.
C1_Witness ==
    /\ req.op = "addComment"
    /\ res.status = 200
    /\ ops = 1
    /\ Len(ReqThread) = MAX_COMMENTS_PER_CHAPTER
    /\ Cardinality(evicted) = 1

\* C2: an insertion displaces an element only at capacity, and the element
\* displaced was created before every element the list holds afterwards, in
\* a thread (insert at the front, evict at the back) and in a reply list
\* (insert at the back, evict at the front) alike.
C2_EvictsOldest ==
    /\ (req.op = "addComment" /\ res.status = 200 /\ evicted # {}) =>
           /\ Len(ReqThread) = MAX_COMMENTS_PER_CHAPTER
           /\ \A i \in DOMAIN ReqThread :
                  \A e \in evicted : e < ReqThread[i].seq
    /\ (req.op = "addReply" /\ res.status = 200 /\ evicted # {}) =>
           LET replies == ReqThread[ReqIndex].replies
           IN  /\ Len(replies) = MAX_REPLIES_PER_COMMENT
               /\ \A i \in DOMAIN replies :
                      \A e \in evicted : e < replies[i].seq

\* C2 witness: the first comment of the snapshot had been deleted, and an
\* addComment displaced the second, the oldest left.
C2_Witness ==
    /\ req.op = "addComment"
    /\ res.status = 200
    /\ deleted = BusyDeleted
    /\ evicted = BusyOldest

\* C3 (the claim, which the code violates): no two comments of a thread share
\* an id and no two replies of a comment share an id.
C3_UniqueIds ==
    \A k \in DOMAIN comments :
        /\ Cardinality({comments[k][i].id : i \in DOMAIN comments[k]})
               = Len(comments[k])
        /\ \A i \in DOMAIN comments[k] :
               LET replies == comments[k][i].replies
               IN  Cardinality({replies[j].id : j \in DOMAIN replies})
                       = Len(replies)


LimitedOps == {"addComment", "addReply"}

\* the number of calls recorded for ip that are less than RATE_LIMIT_WINDOW
\* old at clock reading t
Recent(ip, t) ==
    IF ip \in DOMAIN admitted
    THEN Cardinality({i \in DOMAIN admitted[ip] :
                         t - admitted[ip][i] < RATE_LIMIT_WINDOW})
    ELSE 0

\* C4: at every instant at most MAX_REQUESTS admitted calls of an identity
\* are RATE_LIMIT_WINDOW old or younger (now - t <= RATE_LIMIT_WINDOW).  The
\* filter of rateLimit drops the call that is exactly RATE_LIMIT_WINDOW old,
\* so the call after MAX_REQUESTS calls is admitted at that age.
C4_ClosedWindow ==
    \A ip \in DOMAIN admitted :
        Cardinality({i \in DOMAIN admitted[ip] :
                        now - admitted[ip][i] <= RATE_LIMIT_WINDOW})
            <= MAX_REQUESTS

\* C5: when RATE_LIMIT_WINDOW has elapsed since the oldest call still
\* recorded for an identity, its next call is admitted.
C5_NoLockout ==
    [][(/\ ops' = ops + 1
        /\ req'.op \in LimitedOps
        /\ req'.ip \in DOMAIN requestTracker
        /\ requestTracker[req'.ip] # <<>>
        /\ now - requestTracker[req'.ip][1] >= RATE_LIMIT_WINDOW)
       => (/\ res'.status # 429
           /\ admitted'[req'.ip] = Append(admitted[req'.ip], now)
           /\ rejected' = rejected)]_vars

\* C5 witness: an identity whose call had been rejected was admitted again.
C5_Witness ==
    /\ req.op \in LimitedOps
    /\ res.status # 429
    /\ req.ip \in DOMAIN rejected
    /\ Len(admitted[req.ip]) > MAX_REQUESTS

\* a body fails the validation of addComment
Invalid(body) ==
    \/ cleanInput(body.text, MAX_TEXT_LENGTH) = <<>>
    \/ cleanInput(body.username, MAX_USERNAME_LENGTH) = <<>>

C7_NoLostLike ==
    /\ \A s \in DOMAIN likeReturns :
           likeReturns[s] = [n \in 1..Len(likeReturns[s]) |-> n]
    /\ \A k \in DOMAIN comments : \A i \in DOMAIN comments[k] :
           LET c == comments[k][i]
           IN  c.likes = IF c.seq \in DOMAIN likeReturns
                         THEN Len(likeReturns[c.seq]) ELSE 0
    /\ (req.op = "likeComment" /\ res.status = 200) =>
           /\ ReqIndex # 0
           /\ ReqThread[ReqIndex].seq = res.seq
           /\ ReqThread[ReqIndex].likes = res.likes

\* C7 witness: two likes of the comment that had BusyLikes likes were
\* answered, the second with BusyLikes + 2.
C7_Witness ==
    /\ req.op = "likeComment"
    /\ res.status = 200
    /\ res.likes = BusyLikes + 2
    /\ likeReturns[res.seq] = [n \in 1..(BusyLikes + 2) |-> n]

\* list without its i-th element
Without(list, i) ==
    [j \in 1..(Len(list) - 1) |-> IF j < i THEN list[j] ELSE list[j + 1]]

\* C8: a deleteComment answered 200 removes exactly one comment, one that
\* bears the id asked for: the thread is the old thread without it, every
\* other comment keeps its content and place, no other thread changes, and
\* none of the removed comment's replies is left in the thread.
C8_DeleteRemovesOne ==
    [][(ops' = ops + 1 /\ req'.op = "deleteComment" /\ res'.status = 200)
       => LET k == key(req'.mangaSlug, req'.chapterNumber)
          IN  /\ k \in DOMAIN comments
              /\ DOMAIN comments' = DOMAIN comments
              /\ commentKeys' = commentKeys
              /\ \A x \in DOMAIN comments \ {k} : comments'[x] = comments[x]
              /\ \E i \in {j \in DOMAIN comments[k] :
                              comments[k][j].id = req'.commentId} :
                     /\ comments'[k] = Without(comments[k], i)
                     /\ comments[k][i].seq \notin SeqsOf(comments'[k])
                     /\ \A j \in DOMAIN comments'[k] :
                            SeqsOf(comments'[k][j].replies) \cap
                                SeqsOf(comments[k][i].replies) = {}]_vars

\* C8 witness: the oldest comment of the snapshot, which had
\* MAX_REPLIES_PER_COMMENT replies and BusyLikes likes, was deleted.
C8_Witness ==
    /\ req.op = "deleteComment"
    /\ res.status = 200
    /\ deleted = BusyDeleted \cup BusyOldest
    /\ Len(ReqThread) = BusyLen - 1

-----------------------------------------------------------------------------
(* Properties of the cache.                                                *)

\* the value and time of the last setCache(k, .)
LastSet(k) == setLog[k][Len(setLog[k])]

\* C10: every entry of the cache is the value and the time of the last
\* setCache of its key (a getCache never changes an entry, a setCache
\* replaces it and restarts its age), and a getCache made less than
\* CACHE_DURATION after the last setCache of its key returns that value.
C10_GetReturnsLastSet ==
    /\ \A k \in DOMAIN cache :
           /\ k \in DOMAIN setLog
           /\ cache[k].value = LastSet(k).value
           /\ cache[k].timestamp = LastSet(k).at
    /\ (/\ cacheRes.op = "get"
        /\ cacheRes.key \in DOMAIN setLog
        /\ cacheRes.at - LastSet(cacheRes.key).at < CACHE_DURATION)
       => (/\ cacheRes.hit
           /\ cacheRes.value = LastSet(cacheRes.key).value
           /\ cacheRes.key \in DOMAIN cache)
    /\ cacheRes.op = "set" =>
           /\ cacheRes.key \in DOMAIN cache
           /\ cache[cacheRes.key] =
                  [value |-> cacheRes.value, timestamp |-> cacheRes.at]

\* C10 witness: one key was set, one millisecond later set to another value,
\* read, and read again one millisecond before CACHE_DURATION had elapsed
\* since the second set; that read returned the second value.
C10_Witness ==
    /\ cacheRes.op = "get"
    /\ cacheRes.hit
    /\ DOMAIN setLog = {cacheRes.key}
    /\ Len(setLog[cacheRes.key]) = 2
    /\ setLog[cacheRes.key][1].value # setLog[cacheRes.key][2].value
    /\ setLog[cacheRes.key][1].at < setLog[cacheRes.key][2].at
    /\ cacheRes.value = setLog[cacheRes.key][2].value
    /\ cacheRes.at - setLog[cacheRes.key][2].at = CACHE_DURATION - 1
    /\ cacheOps = 4

\* C11 (the claim, which the code violates): a getCache made CACHE_DURATION
\* or more after the last setCache of its key returns null and leaves the
\* cache without the key.
C11_VisibleBelowTtl ==
    (/\ cacheRes.op = "get"
     /\ cacheRes.key \in DOMAIN setLog
     /\ cacheRes.at - LastSet(cacheRes.key).at >= CACHE_DURATION)
    => (/\ ~cacheRes.hit
        /\ cacheRes.key \notin DOMAIN cache)

-----------------------------------------------------------------------------
(* The specification of the request bodies: a server that has just started *)
(* is sent addComment and addReply requests whose username, text and       *)
(* rating range over the values a JSON body can carry.                     *)

Repeat(c, n) == [i \in 1..n |-> c]

\* a name that is longer than MAX_USERNAME_LENGTH after cleaning, sent with
\* markup and padding around it
LongName ==
    <<" ", "<">> \o Repeat("x", MAX_USERNAME_LENGTH + 1) \o <<">", " ">>

\* a name whose character at MAX_USERNAME_LENGTH is a space
SpacedName == Repeat("x", MAX_USERNAME_LENGTH - 1) \o <<" ", "y">>

\* a text that is longer than MAX_TEXT_LENGTH after cleaning
LongText == <<" ", "<", ">">> \o Repeat("t", MAX_TEXT_LENGTH + 1)

InputUsernames ==
    {Str(LongName), Str(SpacedName), Str(<<"<", " ", ">">>), Str(<<>>),
     Num(10), Undefined, Null}

InputTexts ==
    {Str(LongText), Str(<<" ", "<", "b", ">", "h", "i", " ">>),
     Str(<<"<", ">">>), Str(<<"\t", "\n">>), Num(10), Undefined}

\* ratings: none, null, a string, and the numbers 0, 1, 4.5, 5, 5.1 and -1
InputRatings ==
    {Undefined, Null, Str(<<"5">>), Num(0), Num(10), Num(45), Num(50), Num(51),
     Num(-10)}

InputBodies ==
    {[username |-> u, text |-> Str(Hi), rating |-> Undefined] :
        u \in InputUsernames}
    \cup {[username |-> Str(Bob), text |-> t, rating |-> Undefined] :
             t \in InputTexts}
    \cup {[username |-> Str(Bob), text |-> Str(Hi), rating |-> r] :
             r \in InputRatings}

InputIp == "10.0.0.2"
InputRoute == <<<<"a">>, <<"1">>>>

InitInput == InitCache

\* every request is handled within one millisecond: the clock plays no part
\* in what is stored of a username, a text and a rating
NextInput ==
    /\ UNCHANGED now
    /\ \/ \E body \in InputBodies :
              AddComment(InputIp, InputRoute[1], InputRoute[2], body)
       \/ \E commentId \in CommentIds(key(InputRoute[1], InputRoute[2])) :
              \E body \in InputBodies :
                  AddReply(InputIp, InputRoute[1], InputRoute[2], commentId,
                           body)

SpecInput == InitInput /\ [][NextInput]_vars

-----------------------------------------------------------------------------
(* Properties of the stored fields.                                        *)

\* what the sanitization rule makes of a value: angle brackets removed, then
\* trimmed, then cut to n characters; nothing of a value that is no string
Sanitized(v, n) ==
    IF v.type # "string" THEN <<>>
    ELSE LET trimmed == Trim(StripAngles(v.chars))
         IN  [i \in 1..Min(n, Len(trimmed)) |-> trimmed[i]]

\* s is not empty, at most n characters long and holds no angle bracket
WellFormed(s, n) ==
    /\ s # <<>>
    /\ Len(s) <= n
    /\ \A i \in DOMAIN s : s[i] \notin {"<", ">"}

\* the comment or reply the last request stored
ReqStored ==
    IF req.op = "addComment" THEN ReqThread[1]
    ELSE LET replies == ReqThread[ReqIndex].replies IN replies[Len(replies)]

\* C12: every stored username and text is well formed; the comment or reply
\* an addComment or addReply stores holds the sanitized username and text of
\* its body; and an admitted request is answered 400 exactly when the
\* sanitized text or username is empty (for addReply: otherwise 200 or 404).
C12_StoredIsSanitized ==
    /\ \A k \in DOMAIN comments : \A i \in DOMAIN comments[k] :
           /\ WellFormed(comments[k][i].username, MAX_USERNAME_LENGTH)
           /\ WellFormed(comments[k][i].text, MAX_TEXT_LENGTH)
           /\ \A j \in DOMAIN comments[k][i].replies :
                  /\ WellFormed(comments[k][i].replies[j].username,
                                MAX_USERNAME_LENGTH)
                  /\ WellFormed(comments[k][i].replies[j].text,
                                MAX_TEXT_LENGTH)
    /\ (req.op \in LimitedOps /\ res.status = 200) =>
           /\ ReqStored.seq = res.seq
           /\ ReqStored.username
                  = Sanitized(req.body.username, MAX_USERNAME_LENGTH)
           /\ ReqStored.text = Sanitized(req.body.text, MAX_TEXT_LENGTH)
    /\ (req.op \in LimitedOps /\ ReqAdmitted) =>
           (res.status = 400 <=>
                \/ Sanitized(req.body.username, MAX_USERNAME_LENGTH) = <<>>
                \/ Sanitized(req.body.text, MAX_TEXT_LENGTH) = <<>>)

\* C12 witness: a reply was stored whose username was sent with markup and
\* padding and was longer than MAX_USERNAME_LENGTH without them, under a
\* comment whose text was cut to MAX_TEXT_LENGTH.
C12_Witness ==
    /\ req.op = "addReply"
    /\ res.status = 200
    /\ req.body.username = Str(LongName)
    /\ ReqStored.username = Repeat("x", MAX_USERNAME_LENGTH)
    /\ ReqThread[ReqIndex].text = Repeat("t", MAX_TEXT_LENGTH)

\* C13 (the claim, which the code violates): the rating of every comment is
\* null or one of the integers 1..5.
C13_RatingIntegerOrNull ==
    \A k \in DOMAIN comments : \A i \in DOMAIN comments[k] :
        LET rating == comments[k][i].rating
        IN  \/ rating = Null
            \/ /\ rating.type = "number"
               /\ rating.tenths \in {10, 20, 30, 40, 50}

-----------------------------------------------------------------------------
(* The specification of the store with its read routes: a server that      *)
(* holds threads under ten keys is sent requests of all six routes.        *)

\* The keys of the snapshot, "a-1" to "j-1" in the order of their creation,
\* and the number of comments under each.  The comments were posted one per
\* millisecond from millisecond 1 on, key by key, by clients outside IPs; the
\* only comment of "a-1" was liked BusyLikes times.
SmallSlugs == <<"a", "b", "c", "d", "e", "f", "g", "h", "i", "j">>
SmallCounts == <<1, 3, 2, 3, 1, 2, 5, 1, 4, 2>>
SmallKey(n) == key(<<SmallSlugs[n]>>, <<"1">>)

\* the number of comments posted before the first comment of the n-th key
SmallOffset(n) ==
    Cardinality(UNION {{<<m, c>> : c \in 1..SmallCounts[m]} : m \in 1..(n - 1)})

\* the c-th comment posted under the n-th key
SmallComment(n, c) ==
    [id |-> SmallOffset(n) + c, seq |-> SmallOffset(n) + c, username |-> Bob,
     text |-> Hi, rating |-> Null, timestamp |-> SmallOffset(n) + c,
     likes |-> IF SmallOffset(n) + c = 1 THEN BusyLikes ELSE 0,
     replies |-> <<>>]

SmallThread(n) ==
    [p \in 1..SmallCounts[n] |-> SmallComment(n, SmallCounts[n] + 1 - p)]

SmallStore ==
    [k \in {SmallKey(n) : n \in DOMAIN SmallSlugs} |->
        SmallThread(CHOOSE n \in DOMAIN SmallSlugs : SmallKey(n) = k)]

InitStore ==
    /\ now = StartNow
    /\ comments = SmallStore
    /\ commentKeys = [n \in DOMAIN SmallSlugs |-> SmallKey(n)]
    /\ requestTracker = <<>>
    /\ admitted = <<>>
    /\ rejected = <<>>
    /\ likeReturns = [s \in {1} |-> [n \in 1..BusyLikes |-> n]]
    /\ deleted = {}
    /\ nextSeq = SmallOffset(Len(SmallSlugs) + 1)
    /\ evicted = {}
    /\ ops = 0
    /\ ticks = 0
    /\ req = NoRequest
    /\ res = NoResponse
    /\ listing = NoListing
    /\ EmptyCache
    /\ Idle

\* the routes tried: the key "a-1" of the snapshot, and two different pairs
\* of :mangaSlug and :chapterNumber that hold a "-"
StoreRoutes == {<<<<"a">>, <<"1">>>>,
                <<<<"a", "-", "b">>, <<"1">>>>,
                <<<<"a">>, <<"b", "-", "1">>>>}

StoreBody == [username |-> Str(Bob), text |-> Str(Hi), rating |-> Undefined]

\* the :commentId values tried on a thread: an id no comment bears and the id
\* of every comment of the thread
StoreIds(k) == {MissingId} \cup {Thread(k)[i].id : i \in DOMAIN Thread(k)}

StoreTickSteps == {1}

NextStore ==
    \/ \E d \in StoreTickSteps : Tick(d)
    \/ \E r \in StoreRoutes : AddComment(InputIp, r[1], r[2], StoreBody)
    \/ \E r \in StoreRoutes : \E commentId \in StoreIds(key(r[1], r[2])) :
           LikeComment(r[1], r[2], commentId)
    \/ \E r \in StoreRoutes : \E commentId \in StoreIds(key(r[1], r[2])) :
           AddReply(InputIp, r[1], r[2], commentId, StoreBody)
    \/ \E r \in StoreRoutes : \E commentId \in StoreIds(key(r[1], r[2])) :
           DeleteComment(r[1], r[2], commentId)
    \/ \E r \in StoreRoutes : ListComments(r[1], r[2])
    \/ Trending

SpecStore == InitStore /\ [][NextStore]_vars

-----------------------------------------------------------------------------
(* Properties of the read routes and of the keys.                          *)

\* the place of key k in the iteration order of the store
KeyPos(k) == CHOOSE i \in DOMAIN commentKeys : commentKeys[i] = k

\* C14: the answer of /trending holds TrendingLimit entries, or one per key
\* when the store has fewer keys; the entries come from different keys of
\* the store, each with the length of its key's thread as commentCount, in
\* non-increasing order of commentCount and, among equal counts, in the
\* iteration order of the keys; a key left out has no larger count than an
\* entry, and comes later in the iteration order than the entries of its
\* count.
C14_TrendingTopTen ==
    req.op = "trending" =>
        LET t == listing.trending
            shown == {t[i].key : i \in DOMAIN t}
        IN  /\ Len(t) = Min(TrendingLimit, Cardinality(DOMAIN comments))
            /\ Len(t) <= 10
            /\ Cardinality(shown) = Len(t)
            /\ shown \subseteq DOMAIN comments
            /\ \A i \in DOMAIN t :
                   t[i].commentCount = Len(comments[t[i].key])
            /\ \A i, j \in DOMAIN t :
                   i < j =>
                       \/ t[i].commentCount > t[j].commentCount
                       \/ /\ t[i].commentCount = t[j].commentCount
                          /\ KeyPos(t[i].key) < KeyPos(t[j].key)
            /\ \A k \in DOMAIN comments \ shown : \A i \in DOMAIN t :
                   \/ Len(comments[k]) < t[i].commentCount
                   \/ /\ Len(comments[k]) = t[i].commentCount
                      /\ KeyPos(k) > KeyPos(t[i].key)

\* C14 witness: /trending was asked of a store with eleven keys, several of
\* them with equal counts, and answered ten entries without the new key.
C14_Witness ==
    /\ req.op = "trending"
    /\ Cardinality(DOMAIN comments) = TrendingLimit + 1
    /\ Len(listing.trending) = TrendingLimit
    /\ \A i \in DOMAIN listing.trending :
           listing.trending[i].key # commentKeys[Len(commentKeys)]
    /\ \E i \in DOMAIN listing.trending :
           listing.trending[i].commentCount
               = Len(comments[commentKeys[Len(commentKeys)]])

\* the pair of route parameters of the request of a step
ReqRoute == <<req.mangaSlug, req.chapterNumber>>

\* C15 (the claim, which the code violates): a request under one pair of
\* :mangaSlug and :chapterNumber leaves the thread every other pair
\* addresses as it was.
C15_PairsApart ==
    [][ops' = ops + 1 =>
           \A r \in StoreRoutes :
               r # ReqRoute' =>
                   Thread(key(r[1], r[2]))' = Thread(key(r[1], r[2]))]_vars

\* C16: listComments and /trending leave the store, its keys and the limiter
\* as they were; listComments answers the thread of its key, or the empty
\* list when the key has none, and total is the length of the list answered.
C16_ReadsChangeNothing ==
    [][(ops' = ops + 1 /\ req'.op \in {"listComments", "trending"})
       => (/\ comments' = comments
           /\ commentKeys' = commentKeys
           /\ requestTracker' = requestTracker
           /\ admitted' = admitted
           /\ rejected' = rejected
           /\ nextSeq' = nextSeq
           /\ likeReturns' = likeReturns
           /\ deleted' = deleted
           /\ res'.status = 200
           /\ trending(comments', commentKeys') = trending(comments, commentKeys)
           /\ req'.op = "listComments" =>
                  LET k == key(req'.mangaSlug, req'.chapterNumber)
                  IN  /\ listing'.total = Len(listing'.comments)
                      /\ listing'.comments
                             = IF k \in DOMAIN comments THEN comments[k]
                               ELSE <<>>
                      /\ k \notin DOMAIN comments =>
                             /\ listing'.total = 0
                             /\ k \notin DOMAIN comments')]_vars

\* C16 witness: listComments for a key that has no thread answered the empty
\* list, after a comment had been posted under another key.
C16_Witness ==
    /\ req.op = "listComments"
    /\ ~HasKey(ReqKey)
    /\ listing.total = 0
    /\ nextSeq > SmallOffset(Len(SmallSlugs) + 1)

\* C17: no key ever leaves the store; a key enters it only with an addComment
\* answered 200, as the last key of the iteration order; likeComment,
\* deleteComment and addReply answered 404 for a key of the store fail on
\* the comment, not on the key; a key with an empty thread is listed with
\* total 0 and, while the store has at most TrendingLimit keys, is an entry
\* of /trending with commentCount 0.
C17_KeysStay ==
    [][/\ DOMAIN comments \subseteq DOMAIN comments'
       /\ {commentKeys'[i] : i \in DOMAIN commentKeys'} = DOMAIN comments'
       /\ DOMAIN comments' = DOMAIN comments => commentKeys' = commentKeys
       /\ DOMAIN comments' # DOMAIN comments =>
              /\ ops' = ops + 1
              /\ req'.op = "addComment"
              /\ res'.status = 200
              /\ commentKeys' =
                     Append(commentKeys, key(req'.mangaSlug, req'.chapterNumber))
       /\ (/\ ops' = ops + 1
           /\ req'.op \in {"likeComment", "deleteComment", "addReply"}
           /\ res'.status = 404
           /\ HasKey(key(req'.mangaSlug, req'.chapterNumber)))
          => res'.error = "Comment not found"
       /\ (/\ ops' = ops + 1
           /\ req'.op = "listComments"
           /\ HasKey(key(req'.mangaSlug, req'.chapterNumber))
           /\ comments[key(req'.mangaSlug, req'.chapterNumber)] = <<>>)
          => listing'.total = 0
       /\ (/\ ops' = ops + 1
           /\ req'.op = "trending"
           /\ Len(commentKeys) <= TrendingLimit)
          => \A k \in DOMAIN comments :
                 \E i \in DOMAIN listing'.trending :
                     /\ listing'.trending[i].key = k
                     /\ listing'.trending[i].commentCount = Len(comments[k])
      ]_vars

\* C17 witness: the only comment of a key was deleted, and /trending then
\* answered an entry with commentCount 0 for the key.
C17_Witness ==
    /\ req.op = "trending"
    /\ deleted # {}
    /\ \E i \in DOMAIN listing.trending :
           /\ listing.trending[i].commentCount = 0
           /\ listing.trending[i].recentActivity = 0
           /\ comments[listing.trending[i].key] = <<>>

\* the request of a step reached the i-th comment of the thread of key k:
\* a likeComment or an addReply answered 200 that named it
Reached(k, i) ==
    /\ req'.op \in {"likeComment", "addReply"}
    /\ res'.status = 200
    /\ key(req'.mangaSlug, req'.chapterNumber) = k
    /\ FindIndex(comments[k], req'.commentId) = i

\* C18: a comment that a request leaves in the store stays under its key with
\* its id, username, text, rating and timestamp; its like count does not
\* decrease, and changes only by 1 and only through a likeComment that names
\* it; a request that does not name it leaves it as it was, replies
\* included.
C18_CommentsKeepFields ==
    [][ops' = ops + 1 =>
           \A k \in DOMAIN comments : \A i \in DOMAIN comments[k] :
               \A k2 \in DOMAIN comments' : \A j \in DOMAIN comments'[k2] :
                   comments'[k2][j].seq = comments[k][i].seq =>
                       LET old == comments[k][i]
                           new == comments'[k2][j]
                       IN  /\ k2 = k
                           /\ new.id = old.id
                           /\ new.username = old.username
                           /\ new.text = old.text
                           /\ new.rating = old.rating
                           /\ new.timestamp = old.timestamp
                           /\ new.likes >= old.likes
                           /\ new.likes # old.likes =>
                                  /\ req'.op = "likeComment"
                                  /\ Reached(k, i)
                                  /\ new.likes = old.likes + 1
                           /\ (req'.op = "likeComment" /\ Reached(k, i)) =>
                                  new.likes = old.likes + 1
                           /\ ~Reached(k, i) => new = old]_vars

\* C18 witness: the comment with BusyLikes likes was liked, and then replied
\* to; it holds BusyLikes + 1 likes and the reply.
C18_Witness ==
    /\ req.op = "addReply"
    /\ res.status = 200
    /\ ReqIndex # 0
    /\ ReqThread[ReqIndex].likes = BusyLikes + 1
    /\ Len(ReqThread[ReqIndex].replies) = 1

-----------------------------------------------------------------------------
(* Properties of the ownership of replies and of the limiter's guard.      *)

\* the places <<key, index>> of the comments of a store that hold a reply
Holders(store) ==
    UNION {{<<k, i>> : i \in {j \in DOMAIN store[k] :
                                 store[k][j].replies # <<>>}} :
              k \in DOMAIN store}

\* the replies that can be reached in a store
ReplySeqs(store) ==
    UNION {SeqsOf(store[h[1]][h[2]].replies) : h \in Holders(store)}

\* the comments of a store
CommentSeqs(store) == UNION {SeqsOf(store[k]) : k \in DOMAIN store}

\* C19: after every step each reply of the store is held by one comment of
\* the store, once; and the replies of a comment that the step took out of
\* the store, by deleteComment or by displacement, can no longer be reached.
C19_RepliesGoWithParent ==
    [][comments' # comments =>
           LET after == Holders(comments')
               left == ReplySeqs(comments')
           IN  /\ \A h \in after :
                      LET replies == comments'[h[1]][h[2]].replies
                      IN  /\ Cardinality(SeqsOf(replies)) = Len(replies)
                          /\ \A g \in after \ {h} :
                                 SeqsOf(replies) \cap
                                     SeqsOf(comments'[g[1]][g[2]].replies) = {}
               /\ \A h \in Holders(comments) :
                      comments[h[1]][h[2]].seq \notin CommentSeqs(comments') =>
                          SeqsOf(comments[h[1]][h[2]].replies) \cap left = {}
      ]_vars

\* C19 witness: an addComment displaced the oldest comment of the full
\* thread with its MAX_REPLIES_PER_COMMENT replies, and a reply was then
\* posted to the new comment; that reply is the only one left to reach.
C19_Witness ==
    /\ req.op = "addReply"
    /\ res.status = 200
    /\ deleted = BusyDeleted
    /\ BusyOldest \cap CommentSeqs(comments) = {}
    /\ ReplySeqs(comments) = {res.seq}

\* C20 (the claim, which the code violates): a request changes the store
\* only when the limiter has admitted it, that is, recorded its call.
C20_LimiterGuardsWrites ==
    [][(ops' = ops + 1 /\ comments' # comments)
       => (/\ req'.ip \in DOMAIN admitted'
           /\ admitted' # admitted
           /\ requestTracker' # requestTracker)]_vars

-----------------------------------------------------------------------------
(* The specification of the limiter: a server that holds the ten threads   *)
(* of the snapshot above, and whose limiter has recorded MAX_REQUESTS      *)
(* calls of BusyIp in the last milliseconds (BusyCalls), is sent           *)
(* addComment and addReply requests by the clients of IPs, for the key     *)
(* "a-1" of the snapshot and for a key without thread.                     *)

InitLimiter ==
    /\ now = StartNow
    /\ comments = SmallStore
    /\ commentKeys = [n \in DOMAIN SmallSlugs |-> SmallKey(n)]
    /\ requestTracker = [i \in {BusyIp} |-> BusyCalls]
    /\ admitted = [i \in {BusyIp} |-> BusyCalls]
    /\ rejected = <<>>
    /\ likeReturns = [s \in {1} |-> [n \in 1..BusyLikes |-> n]]
    /\ deleted = {}
    /\ nextSeq = SmallOffset(Len(SmallSlugs) + 1)
    /\ evicted = {}
    /\ ops = 0
    /\ ticks = 0
    /\ req = NoRequest
    /\ res = NoResponse
    /\ listing = NoListing
    /\ EmptyCache
    /\ Idle

\* the bodies tried: one that is stored and one whose text is empty after
\* cleaning
LimiterBodies ==
    {StoreBody,
     [username |-> Str(Bob), text |-> Str(<<"<", " ", ">">>), rating |-> Undefined]}

NextLimiter ==
    \/ \E d \in TickSteps : Tick(d)
    \/ \E ip \in IPs, r \in Routes, body \in LimiterBodies :
           AddComment(ip, r[1], r[2], body)
    \/ \E r \in Routes : \E commentId \in StoreIds(key(r[1], r[2])) :
           \E ip \in IPs, body \in LimiterBodies :
               AddReply(ip, r[1], r[2], commentId, body)

SpecLimiter == InitLimiter /\ [][NextLimiter]_vars

-----------------------------------------------------------------------------
(* Properties of the limiter.                                              *)

\* the timestamps of a list that are less than RATE_LIMIT_WINDOW old at t
InWindow(times, t) ==
    SelectSeq(times, LAMBDA time : t - time < RATE_LIMIT_WINDOW)

\* the call of rateLimit(ip) throws: ip names a property of Object.prototype
\* and requestTracker has no record of it
Throws(ip) == ip \in ObjectPrototype /\ ip \notin DOMAIN requestTracker

\* C21: an addComment or addReply that the limiter rejects is answered 429,
\* "Too many requests", and leaves the limiter as it was: the record of its
\* identity holds the timestamps of the identity's admitted calls that are
\* less than RATE_LIMIT_WINDOW old, without the time of the rejected call,
\* the records of the other identities and the store are unchanged.  A
\* rejection is the value false that rateLimit returns: every call it rejects
\* is answered 429, and no call that throws is a call it rejected.
C21_RejectionRecordsNothing ==
    [][/\ (ops' = ops + 1 /\ req'.op \in LimitedOps /\ res'.status = 429)
          => (/\ res'.error = "Too many requests"
              /\ req'.ip \in DOMAIN requestTracker
              /\ requestTracker' = requestTracker
              /\ requestTracker'[req'.ip] = InWindow(requestTracker[req'.ip], now)
              /\ requestTracker'[req'.ip] = InWindow(admitted[req'.ip], now)
              /\ Len(requestTracker'[req'.ip]) = MAX_REQUESTS
              /\ admitted' = admitted
              /\ rejected'[req'.ip] =
                     (IF req'.ip \in DOMAIN rejected THEN rejected[req'.ip] ELSE 0)
                         + 1
              /\ comments' = comments
              /\ commentKeys' = commentKeys
              /\ nextSeq' = nextSeq)
       /\ (ops' = ops + 1 /\ rejected' # rejected)
          => (res'.status = 429 /\ ~Throws(req'.ip))
      ]_vars

\* C21 witness: two calls of one identity were rejected, a millisecond
\* apart, and its record holds the MAX_REQUESTS calls it held before them.
C21_Witness ==
    /\ req.op \in LimitedOps
    /\ res.status = 429
    /\ req.ip \in DOMAIN rejected
    /\ rejected[req.ip] = 2
    /\ req.at = StartNow + 1
    /\ requestTracker[req.ip] = BusyCalls

\* C22: rateLimit admits exactly when fewer than MAX_REQUESTS of the
\* identity's admitted timestamps, all of them kept, are not older than
\* now - RATE_LIMIT_WINDOW.  rateLimit has discarded the timestamp that is
\* exactly RATE_LIMIT_WINDOW old, and admits where that limiter rejects.
C22_NotOlderReference ==
    [][(ops' = ops + 1 /\ req'.op \in LimitedOps)
       => (res'.status # 429 <=>
               LET times == IF req'.ip \in DOMAIN admitted
                            THEN admitted[req'.ip] ELSE <<>>
               IN  Cardinality({i \in DOMAIN times :
                                   times[i] >= now - RATE_LIMIT_WINDOW})
                       < MAX_REQUESTS)]_vars

-----------------------------------------------------------------------------
(* The specification of the order of a thread: the full thread of the      *)
(* snapshot (or the fresh store) is sent requests of the five routes of    *)
(* one key by a client the limiter has no record of.                       *)

NextOrder ==
    \/ \E d \in StoreTickSteps : Tick(d)
    \/ AddComment(InputIp, InputRoute[1], InputRoute[2], StoreBody)
    \/ \E commentId \in CommentIds(key(InputRoute[1], InputRoute[2])) :
           LikeComment(InputRoute[1], InputRoute[2], commentId)
    \/ \E commentId \in CommentIds(key(InputRoute[1], InputRoute[2])) :
           AddReply(InputIp, InputRoute[1], InputRoute[2], commentId, StoreBody)
    \/ \E commentId \in CommentIds(key(InputRoute[1], InputRoute[2])) :
           DeleteComment(InputRoute[1], InputRoute[2], commentId)
    \/ ListComments(InputRoute[1], InputRoute[2])

SpecOrder == Init /\ [][NextOrder]_vars

\* C23: in every thread each comment was created after the comment that
\* follows it, and in every list of replies each reply was created before
\* the reply that follows it (seq numbers the objects in the order of their
\* creation, so the survivors of a deleteComment, a likeComment or a
\* displacement stand in the order they stood in); listComments answers the
\* thread of its key as it is stored.
C23_InsertionOrder ==
    /\ \A k \in DOMAIN comments :
           /\ \A i \in 1..(Len(comments[k]) - 1) :
                  comments[k][i].seq > comments[k][i + 1].seq
           /\ \A i \in DOMAIN comments[k] :
                  LET replies == comments[k][i].replies
                  IN  \A j \in 1..(Len(replies) - 1) :
                          replies[j].seq < replies[j + 1].seq
    /\ req.op = "listComments" =>
           /\ listing.comments = ReqThread
           /\ listing.total = Len(ReqThread)

\* C23 witness: a comment was posted to the full thread, and listComments
\* then answered the thread with the new comment first and without the
\* comment displaced.
C23_Witness ==
    /\ req.op = "listComments"
    /\ Len(listing.comments) = MAX_COMMENTS_PER_CHAPTER
    /\ listing.comments[1].seq = nextSeq
    /\ listing.comments[1].timestamp = StartNow
    /\ BusyOldest \cap SeqsOf(listing.comments) = {}
    /\ ops = 2

-----------------------------------------------------------------------------
(* The handlers of addComment and addReply, statement by statement, under  *)
(* the event loop.  A request that has been received waits until the call  *)
(* stack is empty; the event loop then runs its handler, which keeps the   *)
(* call stack until it returns or awaits.  A request is                    *)
(*   [op, ip, mangaSlug, chapterNumber, commentId, body, pc, status,       *)
(*    waiting, before]                                                     *)
(* where pc is the statement the handler executes next ("queued" before    *)
(* the handler is called, "done" after it has answered), status the status *)
(* answered (0 before), waiting the number of requests that were queued    *)
(* when the handler was called, and before the object comments as it was   *)
(* then.                                                                   *)

\* Yields for a handler that awaits between the pop and the unshift
YieldsAfterEvict(pc) == pc = "insert"

\* the handler awaits before the statement pc: the handlers of lines 438-489
\* and 521-568 are no async functions and await nothing
Yields(pc) == FALSE

\* if (comments[key].length >= MAX_COMMENTS_PER_CHAPTER) comments[key].pop()
PopAtCapacity(list) ==
    IF Len(list) >= MAX_COMMENTS_PER_CHAPTER
    THEN SubSeq(list, 1, Len(list) - 1)
    ELSE list

\* comments[key].unshift(newComment)
Unshift(list, newComment) == <<newComment>> \o list

\* if (comment.replies.length >= MAX_REPLIES_PER_COMMENT) comment.replies.shift()
ShiftAtCapacity(replies) ==
    IF Len(replies) >= MAX_REPLIES_PER_COMMENT THEN Tail(replies) ELSE replies

\* what no statement of the two handlers changes (the clock apart)
stepFrame == <<likeReturns, deleted, req, res, listing, cacheVars, fetchVars>>

\* the request on the call stack moves to statement pc, or answers status
Advance(pc, status) ==
    /\ steppers' = [steppers EXCEPT ![active].pc = pc, ![active].status = status]
    /\ active' = IF pc = "done" \/ Yields(pc) THEN 0 ELSE active

\* a request is received
Arrive(op, ip, mangaSlug, chapterNumber, commentId, body) ==
    /\ ops < MaxOps
    /\ ops' = ops + 1
    /\ steppers' = Append(steppers,
                          [op |-> op, ip |-> ip, mangaSlug |-> mangaSlug,
                           chapterNumber |-> chapterNumber,
                           commentId |-> commentId, body |-> body,
                           pc |-> "queued", status |-> 0, waiting |-> 0,
                           before |-> <<>>])
    /\ UNCHANGED <<now, ticks, stepFrame, comments, commentKeys, requestTracker, nextSeq,
                   admitted, rejected, evicted, active>>

\* the call stack is empty and the event loop calls the handler of request
\* i, or resumes it where it awaited
Dispatch(i) ==
    /\ active = 0
    /\ steppers[i].pc # "done"
    /\ active' = i
    /\ steppers' =
           IF steppers[i].pc = "queued"
           THEN [steppers EXCEPT
                    ![i].pc = "limit",
                    ![i].before = comments,
                    ![i].waiting = Cardinality({j \in DOMAIN steppers :
                                                   steppers[j].pc = "queued"}) - 1]
           ELSE steppers
    /\ UNCHANGED <<now, ticks, stepFrame, comments, commentKeys, requestTracker, nextSeq,
                   admitted, rejected, evicted, ops>>

\* if (!rateLimit(ip)) return res.status(429)...; a call of rateLimit that
\* throws ends the handler, and Express answers 500
StepLimit ==
    /\ active # 0
    /\ steppers[active].pc = "limit"
    /\ LET s == steppers[active]
           rl == rateLimit(requestTracker, s.ip, now)
       IN  /\ requestTracker' = rl.tracker
           /\ admitted' = Admit(s.ip, rl.ok)
           /\ rejected' = Reject(s.ip, rl.ok, rl.throws)
           /\ IF rl.throws THEN Advance("done", 500)
              ELSE IF rl.ok THEN Advance("validate", 0)
              ELSE Advance("done", 429)
    /\ UNCHANGED <<now, ticks, stepFrame, comments, commentKeys, nextSeq, evicted, ops>>

\* cleanInput of username and text, and the tests of the cleaned values
StepValidate ==
    /\ active # 0
    /\ steppers[active].pc = "validate"
    /\ LET s == steppers[active]
           cleanUsername == cleanInput(s.body.username, MAX_USERNAME_LENGTH)
           cleanText == cleanInput(s.body.text, MAX_TEXT_LENGTH)
       IN  IF Falsy(cleanText) \/ Falsy(cleanUsername)
           THEN Advance("done", 400)
           ELSE IF s.op = "addComment" THEN Advance("evict", 0)
           ELSE Advance("find", 0)
    /\ UNCHANGED <<now, ticks, stepFrame, comments, commentKeys, requestTracker, nextSeq,
                   admitted, rejected, evicted, ops>>

\* addReply: if (!comments[key]) return 404; comments[key].find(...);
\* if (!comment) return 404
StepFind ==
    /\ active # 0
    /\ steppers[active].pc = "find"
    /\ LET s == steppers[active]
           k == key(s.mangaSlug, s.chapterNumber)
       IN  IF ~HasKey(k) \/ FindIndex(Thread(k), s.commentId) = 0
           THEN Advance("done", 404)
           ELSE Advance("evict", 0)
    /\ UNCHANGED <<now, ticks, stepFrame, comments, commentKeys, requestTracker, nextSeq,
                   admitted, rejected, evicted, ops>>

\* addComment: if (!comments[key]) comments[key] = []; pop() at capacity.
\* addReply: comment.replies.shift() at capacity.
StepEvict ==
    /\ active # 0
    /\ steppers[active].pc = "evict"
    /\ LET s == steppers[active]
           k == key(s.mangaSlug, s.chapterNumber)
           index == FindIndex(Thread(k), s.commentId)
       IN  /\ IF s.op = "addComment"
              THEN /\ comments' = PutThread(k, PopAtCapacity(Thread(k)))
                   /\ commentKeys' = PutKeys(k)
                   /\ evicted' = SeqsOf(Thread(k)) \ SeqsOf(comments'[k])
              ELSE /\ comments' = [comments EXCEPT ![k][index].replies =
                                       ShiftAtCapacity(@)]
                   /\ commentKeys' = commentKeys
                   /\ evicted' = SeqsOf(comments[k][index].replies) \
                                     SeqsOf(comments'[k][index].replies)
           /\ Advance("insert", 0)
    /\ UNCHANGED <<now, ticks, stepFrame, requestTracker, nextSeq, admitted, rejected, ops>>

\* addComment: const newComment = {...}; comments[key].unshift(newComment);
\* res.json(...).  addReply: const reply = {...}; comment.replies.push(reply);
\* res.json(...).  The id is the clock as the object is built, and the clock
\* advances by a step of ClockSteps before the timestamp is read.
StepInsert ==
    /\ active # 0
    /\ steppers[active].pc = "insert"
    /\ LET s == steppers[active]
           k == key(s.mangaSlug, s.chapterNumber)
           index == FindIndex(Thread(k), s.commentId)
           cleanUsername == cleanInput(s.body.username, MAX_USERNAME_LENGTH)
           cleanText == cleanInput(s.body.text, MAX_TEXT_LENGTH)
           newComment(stampAt) ==
               [id |-> now, seq |-> nextSeq + 1,
                username |-> cleanUsername, text |-> cleanText,
                rating |-> StoredRating(s.body.rating),
                timestamp |-> stampAt, likes |-> 0, replies |-> <<>>]
           reply(stampAt) ==
               [id |-> now, seq |-> nextSeq + 1,
                username |-> cleanUsername, text |-> cleanText,
                timestamp |-> stampAt, likes |-> 0]
       IN  \E d \in ClockSteps :
           /\ ClockAdvances(d)
           /\ comments' =
                  IF s.op = "addComment"
                  THEN [comments EXCEPT ![k] = Unshift(@, newComment(now + d))]
                  ELSE [comments EXCEPT ![k][index].replies =
                           Append(@, reply(now + d))]
           /\ nextSeq' = nextSeq + 1
           /\ Advance("done", 200)
    /\ UNCHANGED <<stepFrame, commentKeys, requestTracker, admitted, rejected,
                   evicted, ops>>

\* A second snapshot: the oldest comment of the full thread has been deleted
\* as well, which leaves the thread one comment below its capacity.
InitAlmostFull ==
    /\ rejected = <<>>
    /\ comments = [k \in {BusyKey} |-> SubSeq(BusyThread, 1, BusyLen - 1)]
    /\ commentKeys = <<BusyKey>>
    /\ requestTracker = [i \in {BusyIp} |-> BusyCalls]
    /\ admitted = [i \in {BusyIp} |-> BusyCalls]
    /\ likeReturns = [s \in BusyOldest |-> [n \in 1..BusyLikes |-> n]]
    /\ deleted = BusyDeleted \cup BusyOldest
    /\ nextSeq = BusyPosted + BusyReplies

InitSteps ==
    /\ now = StartNow
    /\ InitBusy \/ InitAlmostFull
    /\ evicted = {}
    /\ ops = 0
    /\ ticks = 0
    /\ req = NoRequest
    /\ res = NoResponse
    /\ listing = NoListing
    /\ EmptyCache
    /\ Idle

\* the clients and bodies of the addComment requests: the client whose
\* MAX_REQUESTS calls are recorded, a client whose name is a name of
\* ObjectPrototype, and a client without record, each with a body that is
\* stored
StepSenders ==
    {<<BusyIp, StoreBody>>, <<"constructor", StoreBody>>,
     <<InputIp, StoreBody>>}

\* the :commentId values of the addReply requests: the id of the snapshot's
\* oldest comment, which the second snapshot no longer holds, and the id of
\* every comment posted since
StepIds(k) == (CommentIds(k) \ {MissingId}) \cup ProbeIds

NextSteps ==
    \/ \E d \in StoreTickSteps : Tick(d)
    \/ \E sender \in StepSenders :
           Arrive("addComment", sender[1], InputRoute[1], InputRoute[2], 0,
                  sender[2])
    \/ \E commentId \in StepIds(key(InputRoute[1], InputRoute[2])) :
           Arrive("addReply", InputIp, InputRoute[1], InputRoute[2], commentId,
                  StoreBody)
    \/ \E i \in DOMAIN steppers : Dispatch(i)
    \/ StepLimit
    \/ StepValidate
    \/ StepFind
    \/ StepEvict
    \/ StepInsert

SpecSteps == InitSteps /\ [][NextSteps]_vars

\* what the handler of request s as one operation makes of the store
\* s.before, created being the comment or reply it created
AsOneOperation(s, created) ==
    LET k == key(s.mangaSlug, s.chapterNumber)
        old == IF k \in DOMAIN s.before THEN s.before[k] ELSE <<>>
    IN  IF s.op = "addComment"
        THEN [x \in DOMAIN s.before \cup {k} |->
                 IF x = k THEN InsertComment(old, created) ELSE s.before[x]]
        ELSE [s.before EXCEPT ![k][FindIndex(old, s.commentId)].replies =
                 InsertReply(@, created)]

\* the comment or reply that the handler of request s has just stored
Created(s, store) ==
    LET k == key(s.mangaSlug, s.chapterNumber)
    IN  IF s.op = "addComment" THEN store[k][1]
        ELSE LET replies == store[k][FindIndex(store[k], s.commentId)].replies
             IN  replies[Len(replies)]

\* C24: the handler of a request is called only while no other handler is
\* between its first statement and its answer, however many requests are
\* waiting; when a handler answers 200 the store is what its operation, as
\* one step, makes of the store the handler found, and when it answers an
\* error the store is the store it found; no thread ever exceeds
\* MAX_COMMENTS_PER_CHAPTER and no reply list MAX_REPLIES_PER_COMMENT.
C24_HandlersAtomic ==
    [][/\ \A i \in DOMAIN steppers :
              (steppers[i].pc = "queued" /\ steppers'[i].pc # "queued") =>
                  \A j \in DOMAIN steppers \ {i} :
                      steppers[j].pc \in {"queued", "done"}
       /\ \A i \in DOMAIN steppers :
              (steppers[i].pc \notin {"queued", "done"} /\ steppers'[i].pc = "done")
                  => IF steppers'[i].status = 200
                     THEN comments' = AsOneOperation(steppers[i],
                                          Created(steppers[i], comments'))
                     ELSE comments' = steppers[i].before
       /\ \A k \in DOMAIN comments' :
              /\ Len(comments'[k]) <= MAX_COMMENTS_PER_CHAPTER
              /\ \A i \in DOMAIN comments'[k] :
                     Len(comments'[k][i].replies) <= MAX_REPLIES_PER_COMMENT
      ]_vars

\* C24 witness: two addComment requests for the thread one below capacity
\* were waiting at the same time; both were answered 200, the second
\* displaced the oldest comment, and the thread holds
\* MAX_COMMENTS_PER_CHAPTER comments.
C24_Witness ==
    /\ Len(steppers) = 2
    /\ \A i \in DOMAIN steppers :
           /\ steppers[i].op = "addComment"
           /\ steppers[i].pc = "done"
           /\ steppers[i].status = 200
    /\ \E i \in DOMAIN steppers : steppers[i].waiting = 1
    /\ deleted = BusyDeleted \cup BusyOldest
    /\ Len(comments[BusyKey]) = MAX_COMMENTS_PER_CHAPTER
    /\ Cardinality(evicted) = 1

-----------------------------------------------------------------------------
(* The cached routes.  Their handlers are async functions: a handler runs  *)
(* from its first statement to its first await, and from the answer of the *)
(* collaborator it awaited to the next await or to its own answer; between *)
(* the two, other handlers run.  Modelled are                              *)
(*   - router.get("/search") and router.get("/media/:id") of part_004 (the *)
(*     handlers of home.js, of mangadex.js and of anilist.js have their    *)
(*     shape),                                                             *)
(*   - router.get("/:slug") of manga.js (and of part_001),                 *)
(*   - router.get("/:slug/chapter/:number") and                            *)
(*     router.get("/:slug/similar") of manga.js.                           *)
(* Every router has a Map of its own; their keys bear different prefixes,  *)
(* and the Maps are held as one.  A request of these routes is             *)
(*   [handler, key, pc, status, hit, value, media, calls, failed, sets,    *)
(*    at, pending]                                                         *)
(* where pc is the collaborator whose answer the handler awaits ("done"    *)
(* after it has answered), status the status answered (0 before), hit      *)
(* whether getCache returned a value, value the body answered, media what  *)
(* AniList answered, calls, failed and sets the numbers of collaborator    *)
(* calls made, of such calls that failed and of setCache calls, at the     *)
(* clock reading of the request, and pending the number of requests of the *)
(* same key that were awaiting a collaborator when this one was received.  *)
(* A value is held as the tuple of its parts, and null as NullValue.  A     *)
(* handler that answers before it has built a key has the key <<>>.        *)

MaxFlights == 2    \* requests of the cached routes in one run

\* the characters /[^a-z0-9-]/gi leaves: the letters a to z in both cases,
\* the digits and "-"
SlugChars ==
    {"a", "b", "c", "d", "e", "f", "g", "h", "i", "j", "k", "l", "m",
     "n", "o", "p", "q", "r", "s", "t", "u", "v", "w", "x", "y", "z",
     "A", "B", "C", "D", "E", "F", "G", "H", "I", "J", "K", "L", "M",
     "N", "O", "P", "Q", "R", "S", "T", "U", "V", "W", "X", "Y", "Z",
     "0", "1", "2", "3", "4", "5", "6", "7", "8", "9", "-"}

\* slug.replace(/[^a-z0-9-]/gi, "")
cleanSlug(slug) == SelectSeq(slug, LAMBDA c : c \in SlugChars)

\* The numbers of the handlers are doubles.  parseInt returns NaN or the
\* double nearest to the integer it read, and a template literal writes a
\* double with the fewest digits that denote it.  Both are computed on
\* natural numbers of any size, held as the sequence of their decimal
\* digits (as integers, the first digit not 0 unless the number is 0).

\* The digits of radix 16: by value, then the capital letters by value.
HexDigits == <<"0", "1", "2", "3", "4", "5", "6", "7", "8", "9",
               "a", "b", "c", "d", "e", "f", "A", "B", "C", "D", "E", "F">>

\* The number whose decimal places, from the units on, hold the values
\* columns (each below 100000): the values are split into their digits,
\* which leaves less than 50 to a place, then less than 14, and the last
\* carries are at most 1.
Carry(columns) ==
    LET at(cols, i) == IF i >= 1 /\ i <= Len(cols) THEN cols[i] ELSE 0
        Split(cols) ==
            <<>> \o [i \in 1..(Len(cols) + 5) |->
                        (at(cols, i) % 10) + ((at(cols, i - 1) \div 10) % 10)
                            + ((at(cols, i - 2) \div 100) % 10)
                            + ((at(cols, i - 3) \div 1000) % 10)
                            + ((at(cols, i - 4) \div 10000) % 10)]
        Small(split) ==
            <<>> \o [i \in DOMAIN split |->
                        (split[i] % 10) + (IF i > 1 THEN split[i - 1] \div 10 ELSE 0)]
        Places(small) ==
            <<>> \o [i \in DOMAIN small |->
                        (small[i]
                             + (IF \E j \in 1..(i - 1) :
                                       /\ small[j] >= 10
                                       /\ \A m \in (j + 1)..(i - 1) : small[m] = 9
                                THEN 1 ELSE 0)) % 10]
        Turn(places, inked) ==
            IF inked = {} THEN <<0>>
            ELSE LET top == CHOOSE i \in inked : \A j \in inked : i >= j
                 IN  <<>> \o [i \in 1..top |-> places[top + 1 - i]]
        Strip(places) == Turn(places, {i \in DOMAIN places : places[i] # 0})
    IN  IF columns = <<>> THEN <<0>>
        ELSE Strip(Places(Small(Split(columns))))

\* a + b
Plus(a, b) ==
    LET place(x, i) == IF i <= Len(x) THEN x[Len(x) + 1 - i] ELSE 0
    IN  IF a = <<0>> THEN b
        ELSE IF b = <<0>> THEN a
        ELSE Carry(<<>> \o [i \in 1..(IF Len(a) > Len(b) THEN Len(a) ELSE Len(b)) |->
                                place(a, i) + place(b, i)])

\* a * b, for factors of less than 1000 digits
Mul(a, b) ==
    LET place(x, i) == x[Len(x) + 1 - i]
        term(i, j, high) ==
            IF j <= high THEN place(a, j) * place(b, i + 1 - j) ELSE 0
        step(low, high) == (high - low + 1) \div 4
        \* the sum of the products of the places low to high of a and the
        \* places of b that make place i with them, taken by quarters
        RECURSIVE Sum(_, _, _)
        Sum(i, low, high) ==
            IF high - low > 3
            THEN (Sum(i, low, low + step(low, high) - 1)
                      + Sum(i, low + step(low, high), low + 2 * step(low, high) - 1))
                     + (Sum(i, low + 2 * step(low, high),
                            low + 3 * step(low, high) - 1)
                            + Sum(i, low + 3 * step(low, high), high))
            ELSE (term(i, low, high) + term(i, low + 1, high))
                     + (term(i, low + 2, high) + term(i, low + 3, high))
    IN  IF a = <<0>> \/ b = <<0>> THEN <<0>>
        ELSE Carry(<<>> \o [i \in 1..(Len(a) + Len(b) - 1) |->
                                Sum(i, IF i > Len(b) THEN i + 1 - Len(b) ELSE 1,
                                       IF i < Len(a) THEN i ELSE Len(a))])

\* a < b
Less(a, b) ==
    IF Len(a) # Len(b) THEN Len(a) < Len(b)
    ELSE \E i \in DOMAIN a : a[i] < b[i] /\ \A j \in 1..(i - 1) : a[j] = b[j]

\* a^e, by the squares of a: Power(p, s, k) is p * s^k
Pow(a, e) ==
    LET RECURSIVE Power(_, _, _)
        Power(p, s, k) ==
            IF k = 0 \/ p = <<0>> \/ s = <<1>> THEN p
            ELSE Power(IF k % 2 = 1 THEN Mul(p, s) ELSE p,
                       IF k > 1 THEN Mul(s, s) ELSE s,
                       k \div 2)
    IN  Power(<<1>>, a, e)

\* n in binary floating point: q = n \div 2^e for the least e that leaves q
\* below 2^53 (the 53 bits a double has), round whether the rest of the
\* division is 2^e / 2 or more, and sticky whether it is neither 0 nor
\* 2^e / 2.  A number of len digits has between (len - 1) * 3.321 + 1 and
\* len * 3.322 + 1 bits, so e is one of the 8 numbers from least on, limit
\* being 2^(52 + least); and n \div 2^e is n * 5^e (scaled) without its
\* last e digits.
Binary(n) ==
    LET Cut(e, scaled) ==
            [e |-> e,
             q |-> SubSeq(scaled, 1, Len(scaled) - e),
             round |-> scaled[Len(scaled) - e + 1] >= 5,
             sticky |-> \/ scaled[Len(scaled) - e + 1] \notin {0, 5}
                        \/ \E i \in (Len(scaled) - e + 2)..Len(scaled) :
                               scaled[i] # 0]
        Shift(e) == Cut(e, Mul(n, Pow(<<5>>, e)))
        Find(least, limit) ==
            Shift(least + Cardinality({j \in 0..6 :
                              ~Less(n, Mul(limit, Pow(<<2>>, j + 1)))}))
        From(least) == Find(least, Pow(<<2>>, 52 + least))
    IN  IF Less(n, <<9, 0, 0, 7, 1, 9, 9, 2, 5, 4, 7, 4, 0, 9, 9, 2>>)
        THEN [e |-> 0, q |-> n, round |-> FALSE, sticky |-> FALSE]
        ELSE From(IF ((Len(n) - 1) * 3321) \div 1000 > 53
                  THEN ((Len(n) - 1) * 3321) \div 1000 - 52 ELSE 1)

\* parseInt(s): leading whitespace (the characters trim removes) is
\* skipped, then a sign is read, then "0x" or "0X", which selects radix 16,
\* then the longest run of digits of the radix; without a digit the result
\* is NaN.  The integer read is rounded to the nearest double, to the one
\* with the even 53 bits when two are as near, and to Infinity from
\* 2^1024 - 2^970 on; a run of more than 309 decimal or 256 hexadecimal
\* digits after its leading zeros is 2^1024 or more, and an integer below
\* 10^15 is a double.  A number is held as its sign and the decimal digits
\* of its value (<<"0">> for 0 and for -0).  The steps are written from the
\* last one to the first, each taking what the steps before it have read.
parseInt(s) ==
    LET value(c) ==
            IF \E v \in DOMAIN HexDigits : HexDigits[v] = c
            THEN LET v == CHOOSE v \in DOMAIN HexDigits : HexDigits[v] = c
                 IN  IF v > 16 THEN v - 7 ELSE v - 1
            ELSE 16
        Number(negative, infinite, digits) ==
            [nan |-> FALSE, negative |-> negative, infinite |-> infinite,
             digits |-> [i \in DOMAIN digits |-> HexDigits[digits[i] + 1]]]
        \* the double q * 2^e
        Double(negative, q, e) ==
            IF e > 971 \/ (e = 971 /\ ~Less(q, Pow(<<2>>, 53)))
            THEN Number(negative, TRUE, <<>>)
            ELSE Number(negative, FALSE,
                        IF e = 0 THEN q ELSE Mul(q, Pow(<<2>>, e)))
        \* the double nearest to the integer of the binary form b
        Nearest(negative, b) ==
            Double(negative,
                   IF b.round /\ (b.sticky \/ b.q[Len(b.q)] % 2 = 1)
                   THEN Plus(b.q, <<1>>) ELSE b.q,
                   b.e)
        \* radix 16: the binary form of the bits from the first 1 on, of
        \* which the first 53 are q; their value is taken in two parts of
        \* less than 2^27
        OfBits(bits, first) ==
            LET all == Len(bits) - first + 1
                kept == IF all > 53 THEN 53 ELSE all
                RECURSIVE Value(_, _)
                Value(low, high) ==
                    IF low > high THEN 0
                    ELSE IF low = high THEN bits[first + low - 1]
                    ELSE Value(low, (low + high) \div 2)
                                 * 2^(high - (low + high) \div 2)
                             + Value((low + high) \div 2 + 1, high)
                Digits(x) ==
                    Carry(<<>> \o [i \in 1..9 |-> (x \div 10^(i - 1)) % 10])
            IN  [e |-> all - kept,
                 q |-> Plus(Mul(Digits(Value(1, kept - 27)),
                                <<1, 3, 4, 2, 1, 7, 7, 2, 8>>),
                            Digits(Value(IF kept > 27 THEN kept - 26 ELSE 1,
                                         kept))),
                 round |-> all > 53 /\ bits[first + 53] = 1,
                 sticky |-> \E i \in (first + 54)..Len(bits) : bits[i] = 1]
        Bits(bits) ==
            OfBits(bits, CHOOSE i \in DOMAIN bits :
                             bits[i] = 1 /\ \A j \in 1..(i - 1) : bits[j] = 0)
        \* the integer of the digits significant, the first of them not 0
        \* unless the integer is 0
        Integer(negative, hex, significant) ==
            IF Len(significant) < 16 /\ (~hex \/ significant = <<0>>)
            THEN Number(negative, FALSE, significant)
            ELSE IF Len(significant) > (IF hex THEN 256 ELSE 309)
            THEN Number(negative, TRUE, <<>>)
            ELSE Nearest(negative,
                         IF hex
                         THEN Bits(<<>> \o [i \in 1..(4 * Len(significant)) |->
                                       (significant[(i + 3) \div 4]
                                            \div 2^(3 - ((i - 1) % 4))) % 2])
                         ELSE Binary(significant))
        \* the values of the digits of the run, without its leading zeros
        Values(negative, hex, values) ==
            Integer(negative, hex,
                    IF \A i \in DOMAIN values : values[i] = 0 THEN <<0>>
                    ELSE SubSeq(values,
                                CHOOSE i \in DOMAIN values :
                                    /\ values[i] # 0
                                    /\ \A j \in 1..(i - 1) : values[j] = 0,
                                Len(values)))
        Run(negative, hex, run) ==
            IF run = <<>>
            THEN [nan |-> TRUE, negative |-> FALSE, infinite |-> FALSE,
                  digits |-> <<>>]
            ELSE Values(negative, hex,
                        <<>> \o [i \in DOMAIN run |-> value(run[i])])
        \* the longest run of digits of the radix rest begins with
        digit(c, hex) == value(c) < (IF hex THEN 16 ELSE 10)
        Rest(negative, hex, rest) ==
            Run(negative, hex,
                IF \A i \in DOMAIN rest : digit(rest[i], hex) THEN rest
                ELSE SubSeq(rest, 1,
                            (CHOOSE i \in DOMAIN rest :
                                 /\ ~digit(rest[i], hex)
                                 /\ \A j \in 1..(i - 1) : digit(rest[j], hex))
                                - 1))
        Radix(negative, unsigned, hex) ==
            Rest(negative, hex,
                 IF hex THEN SubSeq(unsigned, 3, Len(unsigned)) ELSE unsigned)
        Unsigned(negative, unsigned) ==
            Radix(negative, unsigned,
                  /\ Len(unsigned) >= 2
                  /\ unsigned[1] = "0"
                  /\ unsigned[2] \in {"x", "X"})
        Body(body, signed) ==
            Unsigned(signed /\ body[1] = "-",
                     IF signed THEN Tail(body) ELSE body)
        Skipped(body) == Body(body, body # <<>> /\ body[1] \in {"+", "-"})
    IN  Skipped(IF \A i \in DOMAIN s : s[i] \in Whitespace THEN <<>>
                ELSE SubSeq(s,
                            CHOOSE i \in DOMAIN s :
                                /\ s[i] \notin Whitespace
                                /\ \A j \in 1..(i - 1) : s[j] \in Whitespace,
                            Len(s)))

\* `${n}` of a number, Number::toString: NaN, Infinity, no sign for -0, the
\* digits of an integer below 10^15 as they are, and for any other double
\* the digits of the decimal number of fewest significant digits that is
\* nearer to it than to any other double (of two such numbers the nearer
\* one, then the even one); written in full below 10^21, and as d.ddde+x
\* from there on.  The steps are written from the last one to the first.
NumberString(n) ==
    LET Chars(x) == [i \in DOMAIN x |-> HexDigits[x[i] + 1]]
        Small(x) == IF x < 10 THEN <<x>>
                    ELSE IF x < 100 THEN <<x \div 10, x % 10>>
                    ELSE <<x \div 100, (x \div 10) % 10, x % 10>>
        Exponent(shortest, last) ==
            <<HexDigits[shortest[1] + 1]>>
                \o (IF last > 1 THEN <<".">> \o Chars(SubSeq(shortest, 2, last))
                    ELSE <<>>)
                \o <<"e", "+">> \o Chars(Small(Len(shortest) - 1))
        Written(shortest) ==
            IF Len(shortest) <= 21 THEN Chars(shortest)
            ELSE Exponent(shortest,
                          CHOOSE i \in DOMAIN shortest :
                              /\ shortest[i] # 0
                              /\ \A j \in (i + 1)..Len(shortest) : shortest[j] = 0)
        \* v cut to k digits, and the number of k digits after it
        Down(v, k) == <<>> \o [i \in DOMAIN v |-> IF i <= k THEN v[i] ELSE 0]
        Up(v, k) == Plus(Down(v, k), <<1>> \o [i \in 1..(Len(v) - k) |-> 0])
        \* c denotes v: no double is nearer to c.  v4 is 4 * v, below4 four
        \* times the distance of v and the middle of v and the double below
        \* it, above4 the number 4 * v and that distance to the double above
        Denotes(c4, v4, below4, above4, even) ==
            IF even THEN ~Less(Plus(c4, below4), v4) /\ ~Less(above4, c4)
            ELSE Less(v4, Plus(c4, below4)) /\ Less(c4, above4)
        \* of down and up, the one that denotes v; of both the nearer one,
        \* then the even one
        Nearer(v, k, down, up, downFits, upFits) ==
            IF ~upFits THEN down
            ELSE IF ~downFits THEN up
            ELSE IF Less(Plus(v, v), Plus(up, down)) THEN down
            ELSE IF Less(Plus(up, down), Plus(v, v)) THEN up
            ELSE IF v[k] % 2 = 0 THEN down ELSE up
        Pick(v, k, v4, below4, above4, even) ==
            IF k = Len(v) THEN v
            ELSE Nearer(v, k, Down(v, k), Up(v, k),
                        Denotes(Mul(Down(v, k), <<4>>), v4, below4, above4, even),
                        Denotes(Mul(Up(v, k), <<4>>), v4, below4, above4, even))
        \* the fewest digits that denote v; 17 digits denote any double
        Least(v, fits, v4, below4, above4, even) ==
            Pick(v, CHOOSE k \in fits : \A j \in fits : k <= j,
                 v4, below4, above4, even)
        Fewest(v, v4, below4, above4, even) ==
            Least(v,
                  {k \in 1..(IF Len(v) < 17 THEN Len(v) ELSE 17) :
                       \/ k = Len(v)
                       \/ Denotes(Mul(Down(v, k), <<4>>), v4, below4, above4, even)
                       \/ Denotes(Mul(Up(v, k), <<4>>), v4, below4, above4, even)},
                  v4, below4, above4, even)
        \* the double v = b.q * 2^b.e: the doubles beside it are 2^b.e
        \* away, but the one below 2^52 * 2^b.e half of that
        Shortest(v, b) ==
            IF b.e = 0 THEN v
            ELSE Fewest(v, Mul(v, <<4>>),
                        IF b.q = <<4, 5, 0, 3, 5, 9, 9, 6, 2, 7, 3, 7, 0, 4, 9, 6>>
                        THEN Pow(<<2>>, b.e) ELSE Pow(<<2>>, b.e + 1),
                        Plus(Mul(v, <<4>>), Pow(<<2>>, b.e + 1)),
                        b.q[Len(b.q)] % 2 = 0)
        Value(v) == Written(Shortest(v, Binary(v)))
        Unsigned(digits) ==
            IF Len(digits) < 16 THEN digits
            ELSE Value(<<>> \o [i \in DOMAIN digits |->
                           (CHOOSE d \in 1..10 : HexDigits[d] = digits[i]) - 1])
    IN  IF n.nan THEN <<"N", "a", "N">>
        ELSE IF n.infinite
        THEN (IF n.negative THEN <<"-">> ELSE <<>>)
                 \o <<"I", "n", "f", "i", "n", "i", "t", "y">>
        ELSE IF n.negative /\ n.digits # <<"0">> THEN <<"-">> \o Unsigned(n.digits)
        ELSE Unsigned(n.digits)

\* the length (req.query.q || "").substring(0, 100) cuts q to
MaxQueryLength == 100

\* `search-${q}`
SearchKey(q) == <<"s", "e", "a", "r", "c", "h", "-">> \o q

\* `media-${id}`
MediaKey(id) == <<"m", "e", "d", "i", "a", "-">> \o NumberString(id)

\* `similar-manga-${slug}`
SimilarKey(slug) ==
    <<"s", "i", "m", "i", "l", "a", "r", "-", "m", "a", "n", "g", "a", "-">>
        \o cleanSlug(slug)

\* `manga-${slug}`
DetailsKey(slug) == <<"m", "a", "n", "g", "a", "-">> \o cleanSlug(slug)

\* `manga-${slug}-ch-${chapterNum}`, chapterNum = parseInt(req.params.number)
ChapterKey(slug, number) ==
    <<"m", "a", "n", "g", "a", "-">> \o cleanSlug(slug)
        \o <<"-", "c", "h", "-">> \o NumberString(parseInt(number))

\* the history of setCache calls after setCache(k, value)
Logged(k, value) ==
    [x \in DOMAIN setLog \cup {k} |->
        IF x = k
        THEN Append(IF k \in DOMAIN setLog THEN setLog[k] ELSE <<>>,
                    [value |-> value, at |-> now])
        ELSE setLog[x]]

\* what no handler of the cached routes changes
fetchFrame == <<now, ticks, discussionVars, loopVars, cacheOps, cacheRes, genAI,
                sitemapCache, lastGenerated>>

\* null as a value of the cache and of an answer
NullValue == <<"null">>

\* const cached = getCache(cacheKey); if (cached) return res.json(cached);
\* otherwise the handler goes on to its first await, the query of AniList.
\* A stored null is returned by getCache and fails the test, as a missing
\* entry does.
Begin(handler, k) ==
    LET got == getCache(cache, k, now)
        cached == got.hit /\ got.value # NullValue
    IN  /\ Len(flights) < MaxFlights
        /\ cache' = got.cache
        /\ flights' =
               Append(flights,
                      [handler |-> handler, key |-> k,
                       pc |-> IF cached THEN "done" ELSE "anilist",
                       status |-> IF cached THEN 200 ELSE 0,
                       hit |-> cached,
                       value |-> IF cached THEN got.value ELSE <<>>,
                       media |-> "",
                       calls |-> IF cached THEN 0 ELSE 1,
                       failed |-> 0, sets |-> 0, at |-> now,
                       pending |-> Cardinality({j \in DOMAIN flights :
                                                   /\ flights[j].key = k
                                                   /\ flights[j].pc # "done"})])
        /\ UNCHANGED <<fetchFrame, setLog>>

\* the handler answers before it has looked into the cache
Answer(handler, status, value) ==
    /\ Len(flights) < MaxFlights
    /\ flights' =
           Append(flights,
                  [handler |-> handler, key |-> <<>>, pc |-> "done",
                   status |-> status, hit |-> FALSE, value |-> value,
                   media |-> "", calls |-> 0, failed |-> 0, sets |-> 0,
                   at |-> now, pending |-> 0])
    /\ UNCHANGED <<fetchFrame, cache, setLog>>

\* the handler awaits the collaborator pc, having media from AniList
Await(i, pc, media) ==
    /\ flights' = [flights EXCEPT ![i].pc = pc, ![i].media = media,
                                  ![i].calls = @ + 1]
    /\ UNCHANGED <<cache, setLog>>

\* setCache(cacheKey, value); res.json(value), after failed failed calls
Store(i, value, failed) ==
    /\ cache' = setCache(cache, flights[i].key, value, now)
    /\ setLog' = Logged(flights[i].key, value)
    /\ flights' = [flights EXCEPT ![i].pc = "done", ![i].status = 200,
                                  ![i].value = value, ![i].sets = @ + 1,
                                  ![i].failed = @ + failed]

\* res.status(status).json(...) without setCache
Fail(i, status, failed) ==
    /\ flights' = [flights EXCEPT ![i].pc = "done", ![i].status = status,
                                  ![i].failed = @ + failed]
    /\ UNCHANGED <<cache, setLog>>

\* What AniList answers to the i-th request, when it has a result: every
\* query is given an answer of its own, which tells the setCache calls of
\* two requests apart.
FetchAnswers == <<"m1", "m2", "m3">>

\* what the AI and the MangaDex feed answer, when they have a result
FetchDetail == "text"

\* what a collaborator answers: a result, no result (Media: null, or an
\* empty data array), or nothing in time (an error, or the timeout)
Outcomes == {"ok", "none", "fail"}

\* router.get("/search") up to its first await.  req.query.q is a string,
\* undefined when the query has no q, or an array or object (?q=a&q=b),
\* which is truthy and has no substring method: the TypeError is caught.
SearchBegin(q) ==
    LET cut == Substring0(q.chars, MaxQueryLength)
    IN  IF q.type \notin {"string", "undefined"} THEN Answer("search", 500, <<>>)
        ELSE IF cut = <<>> THEN Answer("search", 200, <<>>)
        ELSE Begin("search", SearchKey(cut))

\* router.get("/search") from the answer of AniList on: Page.media is an
\* array, empty when nothing was found
SearchResume(i, outcome) ==
    /\ flights[i].handler = "search"
    /\ flights[i].pc = "anilist"
    /\ IF outcome = "fail" THEN Fail(i, 500, 1)
       ELSE IF outcome = "none" THEN Store(i, <<>>, 0)
       ELSE Store(i, <<FetchAnswers[i]>>, 0)
    /\ UNCHANGED fetchFrame

\* router.get("/:slug")
DetailsBegin(slug) == Begin("details", DetailsKey(slug))

\* router.get("/:slug") from the answer of AniList, or of the AI, on
DetailsResume(i, outcome) ==
    /\ flights[i].handler = "details"
    /\ \/ /\ flights[i].pc = "anilist"
          /\ IF outcome = "fail" THEN Fail(i, 500, 1)
             ELSE IF outcome = "none" THEN Fail(i, 404, 0)
             ELSE IF genAI THEN Await(i, "ai", FetchAnswers[i])
             ELSE Store(i, <<FetchAnswers[i], "description">>, 0)
       \/ /\ flights[i].pc = "ai"
          /\ outcome # "none"
          /\ IF outcome = "fail"
             THEN Store(i, <<flights[i].media, "description">>, 1)
             ELSE Store(i, <<flights[i].media, FetchDetail>>, 0)
    /\ UNCHANGED fetchFrame

\* router.get("/:slug/chapter/:number")
ChapterBegin(slug, number) == Begin("chapter", ChapterKey(slug, number))

\* router.get("/:slug/chapter/:number") from the answer of AniList, of the
\* MangaDex search, or of the MangaDex feed, on.  With Media: null the read
\* of manga.title throws inside the inner try, whose catch swallows it.
ChapterResume(i, outcome) ==
    /\ flights[i].handler = "chapter"
    /\ \/ /\ flights[i].pc = "anilist"
          /\ IF outcome = "fail" THEN Fail(i, 500, 1)
             ELSE IF outcome = "none" THEN Store(i, <<"null", "null">>, 0)
             ELSE Await(i, "mdSearch", FetchAnswers[i])
       \/ /\ flights[i].pc = "mdSearch"
          /\ IF outcome = "fail"
             THEN Store(i, <<flights[i].media, "null">>, 1)
             ELSE IF outcome = "none"
             THEN Store(i, <<flights[i].media, "null">>, 0)
             ELSE Await(i, "mdFeed", flights[i].media)
       \/ /\ flights[i].pc = "mdFeed"
          /\ IF outcome = "fail"
             THEN Store(i, <<flights[i].media, "null">>, 1)
             ELSE IF outcome = "none"
             THEN Store(i, <<flights[i].media, "null">>, 0)
             ELSE Store(i, <<flights[i].media, FetchDetail>>, 0)
    /\ UNCHANGED fetchFrame

\* router.get("/:slug/similar")
SimilarBegin(slug) == Begin("similar", SimilarKey(slug))

\* router.get("/:slug/similar") from an answer of AniList on: the manga,
\* then the manga of its genres, an array that may be empty
SimilarResume(i, outcome) ==
    /\ flights[i].handler = "similar"
    /\ \/ /\ flights[i].pc = "anilist"
          /\ IF outcome = "fail" THEN Fail(i, 500, 1)
             ELSE IF outcome = "none" THEN Fail(i, 404, 0)
             ELSE Await(i, "similar", FetchAnswers[i])
       \/ /\ flights[i].pc = "similar"
          /\ IF outcome = "fail" THEN Fail(i, 500, 1)
             ELSE IF outcome = "none"
             THEN Store(i, <<<<>>, SubSeq(flights[i].key, Len(SimilarKey(<<>>)) + 1,
                                         Len(flights[i].key))>>, 0)
             ELSE Store(i, <<<<flights[i].media>>,
                             SubSeq(flights[i].key, Len(SimilarKey(<<>>)) + 1,
                                    Len(flights[i].key))>>, 0)
    /\ UNCHANGED fetchFrame

\* router.get("/media/:id") up to its first await
MediaBegin(id) ==
    IF parseInt(id).nan \/ parseInt(id).digits = <<"0">>
    THEN Answer("media", 400, <<"Invalid ID">>)
    ELSE Begin("media", MediaKey(parseInt(id)))

\* router.get("/media/:id") from the answer of AniList on; Media is null
\* when AniList has no such id
MediaResume(i, outcome) ==
    /\ flights[i].handler = "media"
    /\ flights[i].pc = "anilist"
    /\ IF outcome = "fail" THEN Fail(i, 500, 1)
       ELSE IF outcome = "none" THEN Store(i, NullValue, 0)
       ELSE Store(i, <<FetchAnswers[i]>>, 0)
    /\ UNCHANGED fetchFrame

\* the :slug, :number, :id and q tried
FetchSlugs == {<<"x">>}
FetchNumbers == {<<"1">>}
FetchIds == {<<"5">>, <<"0">>}
FetchQueries == {Str(<<"a">>), Undefined}

\* the clock steps of the cached routes: a millisecond, and the time after
\* which an entry has expired
FetchTickSteps == {1, CACHE_DURATION + 1}

\* a server that has just started, with or without an AI key
InitFetch ==
    /\ now = StartNow
    /\ InitFresh
    /\ evicted = {}
    /\ ops = 0
    /\ ticks = 0
    /\ req = NoRequest
    /\ res = NoResponse
    /\ listing = NoListing
    /\ EmptyCache
    /\ steppers = <<>>
    /\ active = 0
    /\ flights = <<>>
    /\ genAI \in BOOLEAN
    /\ sitemapCache = <<>>
    /\ lastGenerated = 0

NextFetch ==
    \/ \E d \in FetchTickSteps : CacheTick(d)
    \/ \E slug \in FetchSlugs : SimilarBegin(slug)
    \/ \E i \in DOMAIN flights, outcome \in Outcomes : SimilarResume(i, outcome)
    \/ \E id \in FetchIds : MediaBegin(id)
    \/ \E i \in DOMAIN flights, outcome \in Outcomes : MediaResume(i, outcome)
    \/ \E q \in FetchQueries : SearchBegin(q)
    \/ \E i \in DOMAIN flights, outcome \in Outcomes : SearchResume(i, outcome)
    \/ \E slug \in FetchSlugs : DetailsBegin(slug)
    \/ \E i \in DOMAIN flights, outcome \in Outcomes : DetailsResume(i, outcome)
    \/ \E slug \in FetchSlugs, n \in FetchNumbers : ChapterBegin(slug, n)
    \/ \E i \in DOMAIN flights, outcome \in Outcomes : ChapterResume(i, outcome)

SpecFetch == InitFetch /\ [][NextFetch]_vars

-----------------------------------------------------------------------------
(* Properties of the cached routes.                                        *)

\* C25 (the claim, which the code violates): a handler whose getCache
\* returned a value answers it without a collaborator call; a handler calls
\* setCache only when every collaborator call it made succeeded; and a
\* handler one of whose collaborator calls failed answers an error and has
\* not called setCache.
C25_CachedProtocol ==
    \A i \in DOMAIN flights :
        /\ flights[i].hit => (flights[i].calls = 0 /\ flights[i].status = 200)
        /\ flights[i].sets > 0 => (flights[i].calls > 0 /\ flights[i].failed = 0)
        /\ (flights[i].pc = "done" /\ flights[i].failed > 0) =>
               (flights[i].status >= 400 /\ flights[i].sets = 0)

-----------------------------------------------------------------------------
(* The specification of concurrent misses: requests of router.get("/:slug") *)
(* for one slug, with the clock advancing between their steps.             *)

NextMiss ==
    \/ \E d \in CacheTickSteps : CacheTick(d)
    \/ \E slug \in FetchSlugs : DetailsBegin(slug)
    \/ \E i \in DOMAIN flights, outcome \in Outcomes : DetailsResume(i, outcome)

SpecMiss == InitFetch /\ [][NextMiss]_vars

\* C30: a request whose getCache returned nothing calls the collaborator
\* itself, also when other requests of its key are awaiting theirs, and calls
\* setCache once when it answers 200; every setCache call of a key is the
\* call of one such request; an entry of the cache is the value and the time
\* of the setCache call of its key that was executed last; and a value that
\* getCache returned was stored by an earlier setCache call of the key.
C30_MissesNotCoalesced ==
    /\ \A i \in DOMAIN flights :
           LET f == flights[i]
           IN  /\ ~f.hit => f.calls >= 1
               /\ f.hit => (f.calls = 0 /\ f.sets = 0)
               /\ (f.pc = "done" /\ ~f.hit /\ f.status = 200) => f.sets = 1
               /\ f.status # 200 => f.sets = 0
               /\ f.hit =>
                      /\ f.key \in DOMAIN setLog
                      /\ \E n \in DOMAIN setLog[f.key] :
                             /\ setLog[f.key][n].value = f.value
                             /\ setLog[f.key][n].at <= f.at
    /\ \A k \in DOMAIN setLog :
           Len(setLog[k]) = Cardinality({i \in DOMAIN flights :
                                            flights[i].key = k /\ flights[i].sets = 1})
    /\ \A k \in DOMAIN cache :
           /\ k \in DOMAIN setLog
           /\ cache[k] = [value |-> LastSet(k).value, timestamp |-> LastSet(k).at]

\* C30 witness: a second request for the key was received while the first
\* awaited AniList; both called AniList and both called setCache, the first
\* request a millisecond or more after the second, and the cache holds the
\* value and the time of the first request's call.
C30_Witness ==
    /\ Len(flights) = 2
    /\ flights[2].key = flights[1].key
    /\ flights[2].pending = 1
    /\ \A i \in DOMAIN flights :
           /\ ~flights[i].hit
           /\ flights[i].pc = "done"
           /\ flights[i].status = 200
           /\ flights[i].sets = 1
    /\ flights[1].value # flights[2].value
    /\ setLog[flights[1].key][1].value = flights[2].value
    /\ cache[flights[1].key].value = flights[1].value
    /\ cache[flights[1].key].timestamp > setLog[flights[1].key][1].at

-----------------------------------------------------------------------------
(* The sitemap route of sitemap.js, which caches one document in the two   *)
(* variables sitemapCache and lastGenerated.  Its handler awaits AniList   *)
(* twice (the manga list, then the anime list).  The document is held as   *)
(* the tuple of the clock reading written into it and of the two lists.    *)

SITEMAP_CACHE_DURATION == 1800000

\* getCache of a router whose CACHE_DURATION is duration (the routers differ
\* in that constant only)
getCacheFor(c, k, t, duration) ==
    IF k \notin DOMAIN c
    THEN [hit |-> FALSE, value |-> "", cache |-> c]
    ELSE IF t - c[k].timestamp > duration
    THEN [hit |-> FALSE, value |-> "",
          cache |-> [x \in DOMAIN c \ {k} |-> c[x]]]
    ELSE [hit |-> TRUE, value |-> c[k].value, cache |-> c]

\* sitemapCache && Date.now() - lastGenerated < CACHE_DURATION
sitemapFresh(doc, generated, t) ==
    doc # <<>> /\ t - generated < SITEMAP_CACHE_DURATION

\* what the handler of the sitemap leaves as it was until it stores
sitemapFrame == <<now, ticks, discussionVars, loopVars, cacheVars, genAI>>

\* router.get("/sitemap.xml") up to its first await
SitemapBegin ==
    LET fresh == sitemapFresh(sitemapCache, lastGenerated, now)
    IN  /\ Len(flights) < MaxFlights
        /\ flights' =
               Append(flights,
                      [handler |-> "sitemap", key |-> <<>>,
                       pc |-> IF fresh THEN "done" ELSE "manga",
                       status |-> IF fresh THEN 200 ELSE 0,
                       hit |-> fresh,
                       value |-> IF fresh THEN sitemapCache ELSE <<>>,
                       media |-> "",
                       calls |-> IF fresh THEN 0 ELSE 1,
                       failed |-> 0, sets |-> 0, at |-> now,
                       pending |-> Cardinality({j \in DOMAIN flights :
                                                   flights[j].pc # "done"})])
        /\ UNCHANGED <<sitemapFrame, sitemapCache, lastGenerated>>

\* router.get("/sitemap.xml") from an answer of AniList on; an empty list
\* is a result like any other
SitemapResume(i, outcome) ==
    /\ flights[i].handler = "sitemap"
    /\ \/ /\ flights[i].pc = "manga"
          /\ IF outcome = "fail"
             THEN /\ flights' = [flights EXCEPT ![i].pc = "done",
                                                ![i].status = 500,
                                                ![i].failed = @ + 1]
             ELSE /\ flights' = [flights EXCEPT ![i].pc = "anime",
                                                ![i].media = outcome,
                                                ![i].calls = @ + 1]
          /\ UNCHANGED <<sitemapCache, lastGenerated>>
       \/ /\ flights[i].pc = "anime"
          /\ IF outcome = "fail"
             THEN /\ flights' = [flights EXCEPT ![i].pc = "done",
                                                ![i].status = 500,
                                                ![i].failed = @ + 1]
                  /\ UNCHANGED <<sitemapCache, lastGenerated>>
             ELSE LET sitemap == <<flights[i].at, flights[i].media, outcome>>
                  IN  /\ sitemapCache' = sitemap
                      /\ lastGenerated' = now
                      /\ flights' = [flights EXCEPT ![i].pc = "done",
                                                    ![i].status = 200,
                                                    ![i].value = sitemap,
                                                    ![i].sets = @ + 1]
    /\ UNCHANGED sitemapFrame

\* Clock steps of the sitemap: one millisecond, and one millisecond less
\* than SITEMAP_CACHE_DURATION
SitemapTickSteps == {1, SITEMAP_CACHE_DURATION - 1}

NextSitemap ==
    \/ \E d \in SitemapTickSteps : CacheTick(d)
    \/ SitemapBegin
    \/ \E i \in DOMAIN flights, outcome \in Outcomes : SitemapResume(i, outcome)

SpecSitemap == InitCache /\ [][NextSitemap]_vars

\* C26 (the claim, which the code violates): a request of the sitemap is
\* answered from the stored document exactly when getCache, with
\* SITEMAP_CACHE_DURATION for its duration, would return an entry written at
\* lastGenerated; and a request that answers an error leaves the document
\* and lastGenerated as they were.
C26_SameExpiry ==
    [][/\ (/\ Len(flights') = Len(flights) + 1
           /\ flights'[Len(flights')].handler = "sitemap"
           /\ sitemapCache # <<>>)
          => (flights'[Len(flights')].hit <=>
                  getCacheFor([k \in {"sitemap"} |->
                                  [value |-> sitemapCache,
                                   timestamp |-> lastGenerated]],
                              "sitemap", now, SITEMAP_CACHE_DURATION).hit)
       /\ \A i \in DOMAIN flights :
              (flights[i].pc # "done" /\ flights'[i].status >= 400)
                  => (sitemapCache' = sitemapCache
                      /\ lastGenerated' = lastGenerated)
      ]_vars

-----------------------------------------------------------------------------
(* The identifiers of a trending entry, on a server that starts with an    *)
(* empty store and is sent the requests of NextStore.                      *)

InitStart == Init /\ InitFresh

SpecStart == InitStart /\ [][NextStore]_vars

\* C27 (the claim, which the code violates): the mangaSlug and the
\* chapterNumber of every entry of the answer of /trending are a pair of
\* route parameters whose key is the key the entry was made from.
C27_EntryNamesItsKey ==
    req.op = "trending" =>
        \A i \in DOMAIN listing.trending :
            /\ listing.trending[i].chapterNumber # <<>>
            /\ key(listing.trending[i].mangaSlug,
                   listing.trending[i].chapterNumber) = listing.trending[i].key

-----------------------------------------------------------------------------
(* The place of the limiter in addComment and addReply.                    *)

\* the calls the limiter admitted for ip, <<>> when it admitted none
AdmittedOf(hist, ip) == IF ip \in DOMAIN hist THEN hist[ip] ELSE <<>>

\* C28: addComment and addReply ask the limiter before they look at the body
\* or at the store.  A request is answered 429 exactly when its client has
\* MAX_REQUESTS admitted calls in the window, whatever its body and its
\* route (and 500 exactly when the call of the limiter throws, whatever its
\* body and its route); and a request answered 400 or 404 was admitted, and
\* its clock reading recorded, as one answered 200 is.
C28_LimiterFirst ==
    [][(ops' = ops + 1 /\ req'.op \in {"addComment", "addReply"})
       => /\ res'.status = 429 <=> Recent(req'.ip, now) >= MAX_REQUESTS
          /\ res'.status = 500 <=> Throws(req'.ip)
          /\ res'.status \in {200, 400, 404, 429, 500}
          /\ res'.status \in {200, 400, 404}
                 => /\ admitted' = [i \in DOMAIN admitted \cup {req'.ip} |->
                                       IF i = req'.ip
                                       THEN Append(AdmittedOf(admitted, i), now)
                                       ELSE admitted[i]]
                    /\ requestTracker'[req'.ip] =
                           Append(InWindow(AdmittedOf(admitted, req'.ip), now),
                                  now)
      ]_vars

\* C28 witness: BusyIp, with MAX_REQUESTS - 1 calls left in the window, sent
\* a request that was admitted and wrote nothing (it was answered 400 or
\* 404), and its next request, a comment that could be stored, is answered
\* 429.
C28_Witness ==
    /\ req.op = "addComment"
    /\ req.ip = BusyIp
    /\ req.body = StoreBody
    /\ res.status = 429
    /\ comments = SmallStore
    /\ Len(admitted[BusyIp]) = MAX_REQUESTS + 1
    /\ admitted[BusyIp][MAX_REQUESTS + 1] > StartNow
    /\ requestTracker[BusyIp] = SubSeq(admitted[BusyIp], 2, MAX_REQUESTS + 1)

-----------------------------------------------------------------------------
(* The limiter keeps one record per client.                                *)

\* C29: whether addComment or addReply admits a request is decided by the
\* record of the request's own client and by the clock, and by nothing else:
\* not by the handler, the route or the body, and not by the records of
\* other clients; and the request changes the record of its own client only
\* (no record at all when the call of the limiter throws, which the name of
\* the client and the lack of a record of its own decide).
C29_OwnRecordOnly ==
    [][(ops' = ops + 1 /\ req'.op \in {"addComment", "addReply"})
       => LET ip == req'.ip
              kept == FilterWindow(AdmittedOf(requestTracker, ip), now)
          IN  /\ res'.status # 429 <=> Len(kept) < MAX_REQUESTS
              /\ res'.status = 500 <=> Throws(ip)
              /\ Throws(ip) => requestTracker' = requestTracker
              /\ ~Throws(ip) =>
                     /\ DOMAIN requestTracker' = DOMAIN requestTracker \cup {ip}
                     /\ requestTracker'[ip] = IF Len(kept) < MAX_REQUESTS
                                              THEN Append(kept, now) ELSE kept
              /\ \A i \in DOMAIN requestTracker \ {ip} :
                     requestTracker'[i] = requestTracker[i]
              /\ \A i \in DOMAIN admitted \ {ip} :
                     i \in DOMAIN admitted' /\ admitted'[i] = admitted[i]
              /\ \A i \in DOMAIN rejected \ {ip} :
                     i \in DOMAIN rejected' /\ rejected'[i] = rejected[i]
      ]_vars

\* C29 witness: BusyIp, with MAX_REQUESTS - 1 calls left in the window,
\* posted a comment under "a-1", and its reply under the other key is then
\* answered 429: the two handlers and the two keys draw on one budget.
C29_Witness ==
    /\ req.op = "addReply"
    /\ req.ip = BusyIp
    /\ key(req.mangaSlug, req.chapterNumber) # SmallKey(1)
    /\ res.status = 429
    /\ Len(comments[SmallKey(1)]) = SmallCounts[1] + 1
    /\ Len(requestTracker[BusyIp]) = MAX_REQUESTS
    /\ requestTracker[BusyIp][MAX_REQUESTS] = comments[SmallKey(1)][1].timestamp

=============================================================================
